---- MODULE Spec2Model ----
(***************************************************************************)
(* Spotify Autify (src/server.js): the generate -> match -> refill        *)
(* reconciliation loop behind POST /api/create-playlist, the playlist     *)
(* materializer, and the Spotify token refresh.                           *)
(*                                                                         *)
(* Text is a sequence of one-character strings, so that normalizeText,    *)
(* makeTrackKey and the artist scoring are computed as the code computes  *)
(* them.  The empty sequence stands for '', null and undefined alike      *)
(* (the code reads every text through `value || ''` or a truthiness test).*)
(***************************************************************************)
EXTENDS Integers, Sequences, FiniteSets, TLC

(***************************************************************************)
(* Text helpers (JavaScript String methods used by server.js)             *)
(***************************************************************************)
UpperCase == <<"A", "B", "C", "D", "E", "F", "G", "H", "I", "J", "K", "L", "M",
               "N", "O", "P", "Q", "R", "S", "T", "U", "V", "W", "X", "Y", "Z">>

LowerCase == <<"a", "b", "c", "d", "e", "f", "g", "h", "i", "j", "k", "l", "m",
               "n", "o", "p", "q", "r", "s", "t", "u", "v", "w", "x", "y", "z">>

DigitChars == {"0", "1", "2", "3", "4", "5", "6", "7", "8", "9"}

\* the characters the regular expression class \s matches (those the model uses)
WhitespaceChars == {" ", "\t"}

LowerAlnumChars == {LowerCase[i] : i \in 1..Len(LowerCase)} \cup DigitChars

IsLowerAlnum(ch) == ch \in LowerAlnumChars

LowerOf == [ch \in {UpperCase[i] : i \in 1..Len(UpperCase)} |->
              LowerCase[CHOOSE i \in 1..Len(UpperCase) : UpperCase[i] = ch]]

\* String.prototype.toLowerCase, one character
toLowerCaseChar(ch) == IF ch \in DOMAIN LowerOf THEN LowerOf[ch] ELSE ch

toLowerCase(s) == [i \in 1..Len(s) |-> toLowerCaseChar(s[i])]

\* a replacement that lets the separator through
ReplaceNonAlnum_KeepsBar(s) ==
  [i \in 1..Len(s) |->
     IF IsLowerAlnum(s[i]) \/ s[i] \in WhitespaceChars \/ s[i] = "|" THEN s[i] ELSE " "]

\* .replace(/[^a-z0-9\s]/g, ' ')
ReplaceNonAlnum(s) ==
  [i \in 1..Len(s) |->
     IF IsLowerAlnum(s[i]) \/ s[i] \in WhitespaceChars THEN s[i] ELSE " "]

\* .replace(/\s+/g, ' '): every maximal run of whitespace becomes one space
RECURSIVE CollapseWhitespace(_)
CollapseWhitespace(s) ==
  IF s = <<>> THEN <<>>
  ELSE IF Head(s) \in WhitespaceChars
    THEN IF Len(s) > 1 /\ s[2] \in WhitespaceChars
           THEN CollapseWhitespace(Tail(s))
           ELSE <<" ">> \o CollapseWhitespace(Tail(s))
    ELSE <<Head(s)>> \o CollapseWhitespace(Tail(s))

RECURSIVE TrimStart(_)
TrimStart(s) ==
  IF s # <<>> /\ Head(s) \in WhitespaceChars THEN TrimStart(Tail(s)) ELSE s

RECURSIVE TrimEnd(_)
TrimEnd(s) ==
  IF s # <<>> /\ s[Len(s)] \in WhitespaceChars
    THEN TrimEnd(SubSeq(s, 1, Len(s) - 1))
    ELSE s

\* String.prototype.trim
Trim(s) == TrimEnd(TrimStart(s))

\* String.prototype.includes
Includes(s, sub) ==
  \E i \in 1..(Len(s) - Len(sub) + 1) : SubSeq(s, i, i + Len(sub) - 1) = sub

\* .split(' ').filter(Boolean): the maximal runs of characters other than ' '
RECURSIVE SplitTokensFrom(_, _)
SplitTokensFrom(s, cur) ==
  IF s = <<>> THEN (IF cur = <<>> THEN <<>> ELSE <<cur>>)
  ELSE IF Head(s) = " "
    THEN (IF cur = <<>> THEN <<>> ELSE <<cur>>) \o SplitTokensFrom(Tail(s), <<>>)
    ELSE SplitTokensFrom(Tail(s), Append(cur, Head(s)))

SplitTokens(s) == SplitTokensFrom(s, <<>>)

(***************************************************************************)
(* Track key normalizer                                                    *)
(***************************************************************************)
normalizeText(value) ==
  Trim(CollapseWhitespace(ReplaceNonAlnum(toLowerCase(value))))

makeTrackKey(title, artist) ==
  normalizeText(title) \o <<"|">> \o normalizeText(artist)

(***************************************************************************)
(* Catalog matcher                                                         *)
(*   item   = [uri : STRING, name : Text, artists : Seq([name : Text])]    *)
(*   a score is the exact fraction n / d                                   *)
(***************************************************************************)
Null == [null |-> TRUE]

ScoreZero == [n |-> 0, d |-> 1]
ScoreOne == [n |-> 1, d |-> 1]
\* 0.92
ScoreSubstring == [n |-> 92, d |-> 100]
\* 0.8
ScoreThreshold == [n |-> 8, d |-> 10]

ScoreLess(a, b) == a.n * b.d < b.n * a.d

ScoreMax(a, b) == IF ScoreLess(a, b) THEN b ELSE a

\* requestedTokens.filter((t) => candidateTokens.has(t)).length
RECURSIVE CountIn(_, _)
CountIn(tokens, tokenSet) ==
  IF tokens = <<>> THEN 0
  ELSE (IF Head(tokens) \in tokenSet THEN 1 ELSE 0) + CountIn(Tail(tokens), tokenSet)

SeqToSet(s) == {s[i] : i \in 1..Len(s)}

\* the for loop of getArtistConfidence over itemArtists, from `best`
RECURSIVE ArtistLoop(_, _, _, _)
ArtistLoop(itemArtists, requested, requestedTokens, best) ==
  IF itemArtists = <<>> THEN best
  ELSE LET candidate == normalizeText(Head(itemArtists).name)
           rest == Tail(itemArtists)
       IN IF candidate = <<>> THEN ArtistLoop(rest, requested, requestedTokens, best)
          ELSE IF candidate = requested THEN ScoreOne
          ELSE IF Includes(candidate, requested) \/ Includes(requested, candidate)
            THEN ArtistLoop(rest, requested, requestedTokens, ScoreMax(best, ScoreSubstring))
          ELSE LET candidateTokens == SeqToSet(SplitTokens(candidate))
                   overlap == CountIn(requestedTokens, candidateTokens)
                   score == [n |-> overlap, d |-> Len(requestedTokens)]
               IN ArtistLoop(rest, requested, requestedTokens, ScoreMax(best, score))

getArtistConfidence(itemArtists, requestedArtist) ==
  LET requested == normalizeText(requestedArtist)
      requestedTokens == SplitTokens(requested)
  IN IF requested = <<>> THEN ScoreZero
     ELSE IF Len(requestedTokens) = 0 THEN ScoreZero
     ELSE ArtistLoop(itemArtists, requested, requestedTokens, ScoreZero)

\* Array.prototype.sort((a, b) => b.score - a.score): stable, descending by score
\* an insertion that puts an entry before the entries of its own score
RECURSIVE InsertByScore_Unstable(_, _)
InsertByScore_Unstable(sorted, e) ==
  IF sorted = <<>> THEN <<e>>
  ELSE IF ~ScoreLess(e.score, Head(sorted).score)
    THEN <<e>> \o sorted
    ELSE <<Head(sorted)>> \o InsertByScore_Unstable(Tail(sorted), e)

RECURSIVE InsertByScore(_, _)
InsertByScore(sorted, e) ==
  IF sorted = <<>> THEN <<e>>
  ELSE IF ScoreLess(Head(sorted).score, e.score)
    THEN <<e>> \o sorted
    ELSE <<Head(sorted)>> \o InsertByScore(Tail(sorted), e)

RECURSIVE SortByScoreDesc(_, _)
SortByScoreDesc(scored, acc) ==
  IF scored = <<>> THEN acc
  ELSE SortByScoreDesc(Tail(scored), InsertByScore(acc, Head(scored)))

\* a selection that returns the top item whatever its score
pickBestTrackCandidate_NoThreshold(items, requestedArtist) ==
  IF Len(items) = 0 THEN Null
  ELSE SortByScoreDesc(
         [i \in 1..Len(items) |->
            [item |-> items[i],
             score |-> getArtistConfidence(items[i].artists, requestedArtist)]],
         <<>>)[1].item

pickBestTrackCandidate(items, requestedArtist) ==
  IF Len(items) = 0 THEN Null
  ELSE LET scored == SortByScoreDesc(
                       [i \in 1..Len(items) |->
                          [item |-> items[i],
                           score |-> getArtistConfidence(items[i].artists, requestedArtist)]],
                       <<>>)
           best == scored[1]
       IN IF ScoreLess(best.score, ScoreThreshold) THEN Null ELSE best.item

\* best.artists.map((a) => a.name).join(', ')
RECURSIVE JoinArtistNames(_)
JoinArtistNames(artists) ==
  IF artists = <<>> THEN <<>>
  ELSE IF Len(artists) = 1 THEN Head(artists).name
  ELSE Head(artists).name \o <<",", " ">> \o JoinArtistNames(Tail(artists))

\* `${best.name} - ${...}`
matchedNameOf(best) == best.name \o <<" ", "-", " ">> \o JoinArtistNames(best.artists)

\* the two query formulations of findSpotifyTrackUri, in order
StructuredQuery(c) ==
  <<"t", "r", "a", "c", "k", ":">> \o c.title
     \o <<" ", "a", "r", "t", "i", "s", "t", ":">> \o c.artist

LooseQuery(c) == c.title \o <<" ">> \o c.artist

\* the two formulations in the other order
QueryOf_LooseFirst(c, q) == IF q = 1 THEN LooseQuery(c) ELSE StructuredQuery(c)

QueryOf(c, q) == IF q = 1 THEN StructuredQuery(c) ELSE LooseQuery(c)

\* queries.length
NumQueries == 2

\* what one iteration of the query loop makes of a search response:
\* the match when the best item has a uri, Null otherwise
MatchOfItems(items, c) ==
  LET best == pickBestTrackCandidate(items, c.artist)
  IN IF best # Null /\ best.uri # ""
       THEN [uri |-> best.uri, matchedName |-> matchedNameOf(best)]
       ELSE Null

(***************************************************************************)
(* Candidate generator                                                     *)
(*   a completion is [shape, isArray, tracks]: how its text parses and     *)
(*   what parsed.tracks holds; a raw track is [title, artist]              *)
(***************************************************************************)
Min(a, b) == IF a < b THEN a ELSE b
Max(a, b) == IF a > b THEN a ELSE b

\* Array.prototype.slice(0, n)
SliceTo(s, n) == SubSeq(s, 1, Min(Len(s), n))

Thrown == [ok |-> FALSE]

\* JSON.parse(text), else the first {...} block, else throw
parsePotentialJson(content) ==
  IF content.shape = "json" THEN [ok |-> TRUE, parsed |-> content]
  ELSE IF content.shape = "embedded" THEN [ok |-> TRUE, parsed |-> content]
  ELSE Thrown

\* the number of excluded tracks generateTracklist renders into the prompt
MaxRenderedExclusions == 40

\* excludedTracks.slice(0, 40).map((t) => `${t.title} - ${t.artist}`)
RenderExclusions(excludedTracks) ==
  LET kept == SliceTo(excludedTracks, MaxRenderedExclusions)
  IN [i \in 1..Len(kept) |-> kept[i].title \o <<" ", "-", " ">> \o kept[i].artist]

\* generateTracklist, from the completion's content on
generateTracklist(content, trackCount) ==
  LET p == parsePotentialJson(content)
  IN IF ~p.ok THEN Thrown
     ELSE IF ~p.parsed.isArray \/ Len(p.parsed.tracks) = 0 THEN Thrown
     ELSE LET kept == SelectSeq(p.parsed.tracks,
                                LAMBDA t : t.title # <<>> /\ t.artist # <<>>)
              cut == SliceTo(kept, trackCount)
          IN [ok |-> TRUE,
              tracks |-> [i \in 1..Len(cut) |->
                            [title |-> Trim(cut[i].title), artist |-> Trim(cut[i].artist)]]]

(***************************************************************************)
(* Program constants                                                       *)
(***************************************************************************)
EMERGENCY_FALLBACK_TRACKS ==
  <<
    [title |-> <<"B", "l", "i", "n", "d", "i", "n", "g", " ", "L", "i", "g", "h", "t", "s">>,
     artist |-> <<"T", "h", "e", " ", "W", "e", "e", "k", "n", "d">>],
    [title |-> <<"D", "r", "e", "a", "m", "s">>,
     artist |-> <<"F", "l", "e", "e", "t", "w", "o", "o", "d", " ", "M", "a", "c">>],
    [title |-> <<"E", "l", "e", "c", "t", "r", "i", "c", " ", "F", "e", "e", "l">>,
     artist |-> <<"M", "G", "M", "T">>],
    [title |-> <<"S", "u", "n", "s", "e", "t", " ", "L", "o", "v", "e", "r">>,
     artist |-> <<"P", "e", "t", "i", "t", " ", "B", "i", "s", "c", "u", "i", "t">>],
    [title |-> <<"M", "i", "d", "n", "i", "g", "h", "t", " ", "C", "i", "t", "y">>,
     artist |-> <<"M", "8", "3">>],
    [title |-> <<"T", "a", "m", "e">>,
     artist |-> <<"S", "T", "R", "F", "K", "R">>],
    [title |-> <<"I", "n", "t", "r", "o">>,
     artist |-> <<"T", "h", "e", " ", "x", "x">>],
    [title |-> <<"I", "n", "n", "e", "r", "b", "l", "o", "o", "m">>,
     artist |-> <<"R", "U", "F", "U", "S", " ", "D", "U", " ", "S", "O", "L">>],
    [title |-> <<"S", "o", "m", "e", "t", "h", "i", "n", "g", " ", "A", "b", "o", "u", "t", " ", "U", "s">>,
     artist |-> <<"D", "a", "f", "t", " ", "P", "u", "n", "k">>],
    [title |-> <<"A", " ", "M", "o", "m", "e", "n", "t", " ", "A", "p", "a", "r", "t">>,
     artist |-> <<"O", "D", "E", "S", "Z", "A">>]
  >>

maxAttempts == 8

\* clampTrackCount.  A request value is [kind, val]: a JSON number, text that
\* is the numeral of val, text that is no numeral, empty text, true, false,
\* null, or undefined (the field is missing)
DefaultTrackCount == 20
MinTrackCount == 5
MaxTrackCount == 50

NaN == [nan |-> TRUE, val |-> 0]
Num(n) == [nan |-> FALSE, val |-> n]

\* Number(value)
Number(value) ==
  CASE value.kind = "number" -> Num(value.val)
    [] value.kind = "numeral" -> Num(value.val)
    [] value.kind = "text" -> NaN
    [] value.kind = "empty" -> Num(0)
    [] value.kind = "true" -> Num(1)
    [] value.kind = "false" -> Num(0)
    [] value.kind = "null" -> Num(0)
    [] value.kind = "undefined" -> NaN

\* a clamp whose default is lost: NaN counts as 0 and 0 is clamped
clampTrackCount_NoDefault(value) ==
  Min(Max(Number(value).val, MinTrackCount), MaxTrackCount)

\* Math.min(Math.max(Number(value) || 20, 5), 50)
clampTrackCount(value) ==
  LET x == Number(value)
      n == IF x.nan \/ x.val = 0 THEN DefaultTrackCount ELSE x.val
  IN Min(Max(n, MinTrackCount), MaxTrackCount)

\* the largest generateCount and the cap on the exclusions the engine passes
MaxGenerateCount == 50
MinGenerateCount == 8
MaxExcludedTracks == 80

\* uris.slice(i, i + 100)
AppendBatchSize == 100

(***************************************************************************)
(* The environment the requests run against: what the client sends, what   *)
(* the language model answers and what the catalog holds                   *)
(***************************************************************************)
T_DreamsLoud == <<"d", "r", "e", "a", "m", "s", "!">>
T_FleetwoodSpaced == <<"f", "l", "e", "e", "t", "w", "o", "o", "d", " ", " ", "m", "a", "c">>
T_Yo == <<"Y", "o">>
T_ZedQ == <<"Z", "e", "d", " ", "Q">>
T_QZee == <<"Q", " ", "Z", "e", "e">>
T_IntroRemix == <<"I", "n", "t", "r", "o", " ", "(", "R", "e", "m", "i", "x", ")">>
T_xx == <<"x", "x">>
T_Go == <<"G", "o">>
T_PaddedGo == <<" ", "G", "o", " ">>
T_AbCd == <<"A", "b", " ", "C", "d">>
T_CdAb == <<"C", "d", " ", " ", "A", "B">>
T_Up == <<"U", "p">>
T_Ef == <<"E", "f">>
T_Hi == <<"H", "i">>
T_Gh == <<"G", "h">>
T_Ok == <<"O", "k">>
T_Ij == <<"I", "j">>
T_Blank == <<" ", " ">>
T_Live == <<"L", "i", "v", "e">>

Cand(t, a) == [title |-> t, artist |-> a]

C_Dreams == EMERGENCY_FALLBACK_TRACKS[2]
\* the same key as C_Dreams, another spelling
C_DreamsAlt == Cand(T_DreamsLoud, T_FleetwoodSpaced)
C_Yo == Cand(T_Yo, T_ZedQ)
\* another key than the fallback track Intro, the same catalog track
C_IntroRemix == Cand(T_IntroRemix, T_xx)
C_Go == Cand(T_Go, T_AbCd)
C_Up == Cand(T_Up, T_Ef)
C_Hi == Cand(T_Hi, T_Gh)
C_Ok == Cand(T_Ok, T_Ij)

\* the completions the language model may answer with
Completion(shape, isArray, tracks) ==
  [shape |-> shape, isArray |-> isArray, tracks |-> tracks]

Completions ==
  << Completion("json", TRUE, <<C_Dreams, C_DreamsAlt, C_Yo>>),
     Completion("embedded", TRUE, <<Cand(T_PaddedGo, T_AbCd), C_Up, C_Hi>>),
     Completion("json", TRUE, <<C_IntroRemix, Cand(<<>>, T_xx), C_Ok>>),
     Completion("garbage", FALSE, <<>>),
     Completion("json", TRUE, <<Cand(<<>>, T_Gh), Cand(T_Hi, <<>>)>>),
     Completion("json", TRUE, <<>>),
     Completion("brokenblock", FALSE, <<>>),
     Completion("json", TRUE, <<Cand(T_Blank, T_xx)>>),
     Completion("json", FALSE, <<>>) >>

\* how many of the Completions the model draws from
NumCompletions == 6

\* the approvedTracks a client may send (each entry a preview row's match)
Approved(c) == [requested |-> c]

ApprovedLists ==
  << <<>>,
     <<Approved(C_Dreams), Approved(C_IntroRemix), Approved(C_Go),
       Approved(C_Up), Approved(C_Hi)>>,
     <<Approved(C_Dreams), Approved(C_IntroRemix), Approved(C_Go),
       Approved(C_Up), Approved(C_Hi), Approved(C_Ok)>>,
     <<Approved(Cand(<<>>, T_xx))>>,
     <<Approved(C_Yo), Approved(C_Dreams), Approved(C_DreamsAlt)>>,
     <<Approved(C_Ok), Approved(Cand(T_Go, <<>>))>>,
     <<Approved(Cand(<<>>, T_Gh)), Approved(C_Go)>> >>

NumApprovedLists == 6

\* the trackCount values a client may send
JsonNumber(n) == [kind |-> "number", val |-> n]
Numeral(n) == [kind |-> "numeral", val |-> n]
NotNumeral == [kind |-> "text", val |-> 0]
EmptyText == [kind |-> "empty", val |-> 0]
JsonTrue == [kind |-> "true", val |-> 0]
JsonFalse == [kind |-> "false", val |-> 0]
JsonNull == [kind |-> "null", val |-> 0]
Undefined == [kind |-> "undefined", val |-> 0]

\* the numbers among them: 0, MinRequested..MaxRequested, TooMany and -TooMany
MinRequested == 4
MaxRequested == 5
TooMany == 60

TrackCountInputs ==
  {Undefined, JsonNull, JsonTrue, JsonFalse, NotNumeral, EmptyText,
   JsonNumber(0), JsonNumber(TooMany), JsonNumber(0 - TooMany), Numeral(TooMany)}
  \cup {JsonNumber(n) : n \in MinRequested..MaxRequested}
  \cup {Numeral(n) : n \in MinRequested..MaxRequested}

\* the catalog: a set of [q, items], the items a search for query text q returns
Item(uri, name, artistName) ==
  [uri |-> uri, name |-> name, artists |-> <<[name |-> artistName]>>]

FallbackUris ==
  << "spotify:track:f1", "spotify:track:f2", "spotify:track:f3", "spotify:track:f4",
     "spotify:track:f5", "spotify:track:f6", "spotify:track:f7", "spotify:track:f8",
     "spotify:track:f9", "spotify:track:f10" >>

CatalogFull ==
  { [q |-> StructuredQuery(EMERGENCY_FALLBACK_TRACKS[i]),
     items |-> <<Item(FallbackUris[i], EMERGENCY_FALLBACK_TRACKS[i].title,
                      EMERGENCY_FALLBACK_TRACKS[i].artist)>>]
      : i \in 1..Len(EMERGENCY_FALLBACK_TRACKS) }
  \cup
  { [q |-> LooseQuery(C_DreamsAlt),
     items |-> <<Item("spotify:track:live", T_Live, T_QZee),
                 Item(FallbackUris[2], C_Dreams.title, C_Dreams.artist)>>],
    [q |-> StructuredQuery(C_Yo), items |-> <<Item("spotify:track:qz", T_Yo, T_QZee)>>],
    [q |-> LooseQuery(C_Yo), items |-> <<Item("", T_Yo, T_ZedQ)>>],
    [q |-> LooseQuery(C_IntroRemix),
     items |-> <<Item(FallbackUris[7], EMERGENCY_FALLBACK_TRACKS[7].title,
                      EMERGENCY_FALLBACK_TRACKS[7].artist)>>],
    [q |-> StructuredQuery(C_Go), items |-> <<Item("spotify:track:go", T_Go, T_CdAb)>>],
    [q |-> StructuredQuery(C_Up), items |-> <<Item("spotify:track:up", T_Up, T_Ef)>>],
    [q |-> LooseQuery(C_Hi), items |-> <<Item("spotify:track:hi", T_Hi, T_Gh)>>],
    [q |-> StructuredQuery(C_Ok), items |-> <<Item("spotify:track:ok", T_Ok, T_Ij)>>] }

\* a catalog in which only two tracks can be found
SparseUris == {FallbackUris[2], FallbackUris[7], "spotify:track:live"}

CatalogSparse ==
  {e \in CatalogFull : \A i \in 1..Len(e.items) : e.items[i].uri \in SparseUris}

CatalogEmpty == {}

\* a catalog in which one track can be found
CatalogSingle ==
  {e \in CatalogFull : \A i \in 1..Len(e.items) : e.items[i].uri = FallbackUris[2]}

\* a catalog that answers every fallback search and nothing else
CatalogFallbackOnly ==
  {e \in CatalogFull :
     \E i \in 1..Len(EMERGENCY_FALLBACK_TRACKS) :
        e.q = StructuredQuery(EMERGENCY_FALLBACK_TRACKS[i])}

Catalogs == <<CatalogFull, CatalogSparse, CatalogEmpty, CatalogSingle, CatalogFallbackOnly>>

NumCatalogs == 4

\* data?.tracks?.items || [] of the response to /search?q=...
SearchItems(cat, q) ==
  IF \E e \in cat : e.q = q THEN (CHOOSE e \in cat : e.q = q).items ELSE <<>>

(***************************************************************************)
(* One POST /api/create-playlist request                                   *)
(***************************************************************************)
VARIABLES
  pc,                 \* where the request stands (the await it is suspended at)
  phase,              \* which matchCandidatesToSpotify call runs: seed, expand, fallback
  catalog,            \* which of the Catalogs the request runs against
  approved,           \* which of the ApprovedLists is the request's approvedTracks
  desiredCount,       \* count / desiredCount
  queue,              \* the candidates the for loop of matchCandidatesToSpotify has left
  cur,                \* the candidate findSpotifyTrackUri is resolving
  qi,                 \* the query of findSpotifyTrackUri in flight (1 or 2)
  matched, unmatched, usedUris, attemptedTrackKeys, attempt,
  built,              \* what buildMatchedTrackPool returned
  playlists,          \* the playlist containers the catalog created for the request
  uris, appendIdx,    \* uris and i of the append loop
  appended,           \* the batches the catalog appended
  response,           \* the HTTP response sent
  genRequest,         \* the generation request made last (the one in flight, if any)
  genCalls,           \* how many generation requests the request has made
  resolved,           \* the keys findSpotifyTrackUri was invoked for, in order
  catalogCalls,       \* how many catalog calls the request has issued
  rejected,           \* the statuses the catalog rejected calls of the request with
  now,                \* Date.now(), in units of 60 000 ms
  session,            \* the process-wide session: refreshToken, accessToken, expiresAt
  callPc,             \* where each concurrent spotifyRequest call stands
  bearer,             \* the access token each call sent in its Authorization header
  tokensIssued,       \* how many access tokens the accounts service has issued
  call,               \* the application of a function on its own: its arguments and result
  generatedTracks,    \* generatedTracks of a preview request
  previewRows,        \* previewRows of a preview request
  pendingSlackApprovals,  \* the ids of the map's entries
  approvalsIssued,    \* the ids crypto.randomUUID() has returned
  interactions,       \* where each approve interaction stands, its id, reply and outcome
  creations           \* how many createPlaylistFromInputs calls were started for each id

vars == <<pc, phase, catalog, approved, desiredCount, queue, cur, qi, matched, unmatched,
          usedUris, attemptedTrackKeys, attempt, built, playlists, uris, appendIdx,
          appended, response, genRequest, genCalls, resolved, catalogCalls, rejected,
          now, session, callPc, bearer, tokensIssued, call, generatedTracks,
          previewRows, pendingSlackApprovals, approvalsIssued, interactions, creations>>

requestVars == <<pc, phase, catalog, approved, desiredCount, queue, cur, qi, matched, unmatched,
                 usedUris, attemptedTrackKeys, attempt, built, playlists, uris,
                 appendIdx, appended, response, genRequest, genCalls, resolved,
                 catalogCalls, rejected>>
authVars == <<now, session, callPc, bearer, tokensIssued>>
fnVars == <<call>>
previewVars == <<generatedTracks, previewRows>>
slackVars == <<pendingSlackApprovals, approvalsIssued, interactions, creations>>

engineVars == <<matched, unmatched, usedUris, attemptedTrackKeys, attempt>>
materializerVars == <<built, playlists, uris, appendIdx, appended>>

NoCandidate == Null
NoResponse == Null

\* tokenData.expires_in of the OAuth callback that connected the session,
\* in the unit of `now`
InitialExpiresIn == 2

\* the spotifyRequest calls that may be in progress at once
NumCallers == 2
Callers == 1..NumCallers

\* the approval ids crypto.randomUUID() may return, each once
NumApprovals == 2
ApprovalIds == 1..NumApprovals

\* the approve interactions that may be in progress at once
NumInteractions == 3
Interactions == 1..NumInteractions

\* the statuses spotifyRequest may throw with (response.ok false)
ErrorStatuses == {401, 403, 500}

Init ==
  /\ pc = "idle"
  /\ phase = "seed"
  /\ catalog = 1
  /\ approved = 1
  /\ desiredCount = 0
  /\ queue = <<>>
  /\ cur = NoCandidate
  /\ qi = 0
  /\ matched = <<>>
  /\ unmatched = <<>>
  /\ usedUris = {}
  /\ attemptedTrackKeys = {}
  /\ attempt = 0
  /\ built = Null
  /\ playlists = 0
  /\ uris = <<>>
  /\ appendIdx = 0
  /\ appended = <<>>
  /\ response = NoResponse
  /\ genRequest = Null
  /\ genCalls = 0
  /\ resolved = <<>>
  /\ catalogCalls = 0
  /\ rejected = {}
  /\ now = 0
  /\ session = [refreshToken |-> TRUE, accessToken |-> 0, expiresAt |-> InitialExpiresIn]
  /\ callPc = [p \in Callers |-> "idle"]
  /\ bearer = [p \in Callers |-> 0]
  /\ tokensIssued = 0
  /\ call = Null
  /\ generatedTracks = <<>>
  /\ previewRows = <<>>
  /\ pendingSlackApprovals = {}
  /\ approvalsIssued = {}
  /\ interactions = [p \in Interactions |->
                       [pc |-> "idle", id |-> 0, reply |-> "none", outcome |-> "none"]]
  /\ creations = [id \in ApprovalIds |-> 0]

\* the catch block of the route: 403 for err.status === 403, 500 otherwise
Respond(status, error) ==
  /\ response' = [status |-> IF status = 403 THEN 403 ELSE 500, error |-> error]
  /\ pc' = "done"

\* a map without the filter
SeedsOf_Unfiltered(approvedTracks) ==
  [i \in 1..Len(approvedTracks) |->
     Cand(approvedTracks[i].requested.title, approvedTracks[i].requested.artist)]

\* approvedTracks.filter(...).map(...) of createPlaylistFromInputs
SeedsOf(approvedTracks) ==
  LET kept == SelectSeq(approvedTracks,
                        LAMBDA t : t.requested.title # <<>> /\ t.requested.artist # <<>>)
  IN [i \in 1..Len(kept) |-> Cand(kept[i].requested.title, kept[i].requested.artist)]

GenRequest(trackCount, excludedTracks) ==
  [trackCount |-> trackCount,
   excludedTracks |-> excludedTracks,
   exclusions |-> RenderExclusions(excludedTracks)]

\* the route refuses the request before createPlaylistFromInputs
Refuse ==
  /\ pc = "idle"
  /\ \E status \in {400, 401} :
       /\ response' = [status |-> status, error |-> "refused"]
       /\ pc' = "done"
  /\ UNCHANGED <<phase, catalog, approved, desiredCount, queue, cur, qi, engineVars,
                 materializerVars, genRequest, genCalls, resolved, catalogCalls, rejected>>
  /\ UNCHANGED <<authVars, fnVars, previewVars, slackVars>>

\* createPlaylistFromInputs up to its first await
Receive ==
  /\ pc = "idle"
  /\ \E trackCount \in TrackCountInputs, a \in 1..NumApprovedLists, c \in 1..NumCatalogs :
       LET count == clampTrackCount(trackCount)
           seedCandidates == SeedsOf(ApprovedLists[a])
       IN /\ desiredCount' = count
          /\ catalog' = c
          /\ approved' = a
          /\ IF Len(seedCandidates) = 0
               THEN /\ genRequest' = GenRequest(count, <<>>)
                    /\ genCalls' = genCalls + 1
                    /\ pc' = "seedgen"
                    /\ queue' = queue
               ELSE /\ UNCHANGED <<genRequest, genCalls>>
                    /\ pc' = "match"
                    /\ queue' = seedCandidates
  /\ phase' = "seed"
  /\ UNCHANGED <<cur, qi, engineVars, materializerVars, response, resolved,
                 catalogCalls, rejected>>
  /\ UNCHANGED <<authVars, fnVars, previewVars, slackVars>>

\* the seed generateTracklist call returns or throws
SeedGenerated ==
  /\ pc = "seedgen"
  /\ \E k \in 1..NumCompletions :
       LET r == generateTracklist(Completions[k], genRequest.trackCount)
       IN IF r.ok
            THEN /\ queue' = r.tracks
                 /\ pc' = "match"
                 /\ response' = response
            ELSE /\ Respond(500, "generation")
                 /\ queue' = queue
  /\ UNCHANGED <<phase, catalog, approved, desiredCount, cur, qi, engineVars, materializerVars,
                 genRequest, genCalls, resolved, catalogCalls, rejected>>
  /\ UNCHANGED <<authVars, fnVars, previewVars, slackVars>>

(***************************************************************************)
(* matchCandidatesToSpotify and findSpotifyTrackUri                        *)
(***************************************************************************)
\* a gate that never finds a key
AlreadyAttempted_Never(keys, key) == FALSE

\* attemptedTrackKeys.has(key)
AlreadyAttempted(keys, key) == key \in keys

\* a gate that never finds a uri
UriUsed_Never(used, uri) == FALSE

\* usedUris.has(match.uri)
UriUsed(used, uri) == uri \in used

\* the for loop has run out of candidates: back in buildMatchedTrackPool
MatchDone ==
  /\ pc = "match"
  /\ queue = <<>>
  /\ pc' = IF phase = "fallback" THEN "fill" ELSE "loop"
  /\ UNCHANGED <<phase, catalog, approved, desiredCount, queue, cur, qi, engineVars,
                 materializerVars, response, genRequest, genCalls, resolved, catalogCalls,
                 rejected>>
  /\ UNCHANGED <<authVars, fnVars, previewVars, slackVars>>

\* if (attemptedTrackKeys.has(key)) continue
MatchSkip ==
  /\ pc = "match"
  /\ queue # <<>>
  /\ AlreadyAttempted(attemptedTrackKeys, makeTrackKey(Head(queue).title, Head(queue).artist))
  /\ queue' = Tail(queue)
  /\ UNCHANGED <<pc, phase, catalog, approved, desiredCount, cur, qi, engineVars,
                 materializerVars, response, genRequest, genCalls, resolved, catalogCalls,
                 rejected>>
  /\ UNCHANGED <<authVars, fnVars, previewVars, slackVars>>

\* attemptedTrackKeys.add(key), then findSpotifyTrackUri issues its first search
MatchResolve ==
  /\ pc = "match"
  /\ queue # <<>>
  /\ LET key == makeTrackKey(Head(queue).title, Head(queue).artist)
     IN /\ ~AlreadyAttempted(attemptedTrackKeys, key)
        /\ attemptedTrackKeys' = attemptedTrackKeys \cup {key}
        /\ resolved' = Append(resolved, key)
  /\ cur' = Head(queue)
  /\ queue' = Tail(queue)
  /\ qi' = 1
  /\ catalogCalls' = catalogCalls + 1
  /\ pc' = "search"
  /\ UNCHANGED <<phase, catalog, approved, desiredCount, matched, unmatched, usedUris, attempt,
                 materializerVars, response, genRequest, genCalls, rejected>>
  /\ UNCHANGED <<authVars, fnVars, previewVars, slackVars>>

\* spotifyRequest throws: the request ends in the route's catch block
SearchRejected ==
  /\ pc = "search"
  /\ \E status \in ErrorStatuses :
       /\ rejected' = rejected \cup {status}
       /\ Respond(status, "catalog")
  /\ UNCHANGED <<phase, catalog, approved, desiredCount, queue, cur, qi, engineVars,
                 materializerVars, genRequest, genCalls, resolved, catalogCalls>>
  /\ UNCHANGED <<authVars, fnVars, previewVars, slackVars>>

CurMatch == MatchOfItems(SearchItems(Catalogs[catalog], QueryOf(cur, qi)), cur)

MatchEntry(candidate, match) ==
  [requested |-> candidate, matched |-> match.matchedName, uri |-> match.uri,
   duplicated |-> FALSE]

\* the search yields a confident match: findSpotifyTrackUri returns it
SearchMatched ==
  /\ pc = "search"
  /\ CurMatch # Null
  /\ IF ~UriUsed(usedUris, CurMatch.uri)
       THEN /\ usedUris' = usedUris \cup {CurMatch.uri}
            /\ matched' = Append(matched, MatchEntry(cur, CurMatch))
       ELSE UNCHANGED <<usedUris, matched>>
  /\ pc' = "match"
  /\ UNCHANGED <<phase, catalog, approved, desiredCount, queue, cur, qi, unmatched,
                 attemptedTrackKeys, attempt, materializerVars, response, genRequest, genCalls,
                 resolved, catalogCalls, rejected>>
  /\ UNCHANGED <<authVars, fnVars, previewVars, slackVars>>

\* no confident match from the first query: the second query is issued
SearchNextQuery ==
  /\ pc = "search"
  /\ CurMatch = Null
  /\ qi < NumQueries
  /\ qi' = qi + 1
  /\ catalogCalls' = catalogCalls + 1
  /\ UNCHANGED <<pc, phase, catalog, approved, desiredCount, queue, cur, engineVars,
                 materializerVars, response, genRequest, genCalls, resolved, rejected>>
  /\ UNCHANGED <<authVars, fnVars, previewVars, slackVars>>

\* a miss that is not recorded
SearchUnmatched_Dropped ==
  /\ pc = "search"
  /\ CurMatch = Null
  /\ qi >= NumQueries
  /\ pc' = "match"
  /\ UNCHANGED <<phase, catalog, approved, desiredCount, queue, cur, qi, engineVars,
                 materializerVars, response, genRequest, genCalls, resolved, catalogCalls,
                 rejected>>
  /\ UNCHANGED <<authVars, fnVars, previewVars, slackVars>>

\* neither query matched: findSpotifyTrackUri returns null
SearchUnmatched ==
  /\ pc = "search"
  /\ CurMatch = Null
  /\ qi >= NumQueries
  /\ unmatched' = Append(unmatched, cur)
  /\ pc' = "match"
  /\ UNCHANGED <<phase, catalog, approved, desiredCount, queue, cur, qi, matched, usedUris,
                 attemptedTrackKeys, attempt, materializerVars, response, genRequest, genCalls,
                 resolved, catalogCalls, rejected>>
  /\ UNCHANGED <<authVars, fnVars, previewVars, slackVars>>

(***************************************************************************)
(* buildMatchedTrackPool                                                   *)
(***************************************************************************)
RequestedOf(ms) == [i \in 1..Len(ms) |-> ms[i].requested]

\* the request size without its cap
GenerateCount_NoCap(needed) == Max(needed * 3, MinGenerateCount)

\* Math.min(50, Math.max(needed * 3, 8))
GenerateCount(needed) == Min(MaxGenerateCount, Max(needed * 3, MinGenerateCount))

\* a loop that gives up one attempt early
ExpandGuard_OneShort(ms, desired, att) == Len(ms) < desired /\ att < maxAttempts - 1

\* a loop that asks for more whether or not the pool is full
ExpandGuard_Always(ms, desired, att) == att < maxAttempts

\* while (matched.length < desiredCount && attempt < maxAttempts)
ExpandGuard(ms, desired, att) == Len(ms) < desired /\ att < maxAttempts

\* exclusions that list the misses before the matches
ExcludedTracksOf_UnmatchedFirst(ms, um) ==
  SliceTo(um \o RequestedOf(ms), MaxExcludedTracks)

\* [...matched.map((m) => m.requested), ...unmatched].slice(0, 80)
ExcludedTracksOf(ms, um) == SliceTo(RequestedOf(ms) \o um, MaxExcludedTracks)

\* a round that does not count itself
ExpandStart_NoAdvance ==
  /\ pc = "loop"
  /\ ExpandGuard(matched, desiredCount, attempt)
  /\ LET needed == desiredCount - Len(matched)
         excludedTracks == ExcludedTracksOf(matched, unmatched)
     IN genRequest' = GenRequest(GenerateCount(needed), excludedTracks)
  /\ pc' = "expandgen"
  /\ UNCHANGED <<phase, catalog, approved, desiredCount, queue, cur, qi, engineVars,
                 materializerVars, response, genCalls, resolved, catalogCalls, rejected>>
  /\ UNCHANGED <<authVars, fnVars, previewVars, slackVars>>

\* one more round of the while loop: up to the generateTracklist call
ExpandStart ==
  /\ pc = "loop"
  /\ ExpandGuard(matched, desiredCount, attempt)
  /\ attempt' = attempt + 1
  /\ LET needed == desiredCount - Len(matched)
         excludedTracks == ExcludedTracksOf(matched, unmatched)
     IN genRequest' = GenRequest(GenerateCount(needed), excludedTracks)
  /\ genCalls' = genCalls + 1
  /\ pc' = "expandgen"
  /\ UNCHANGED <<phase, catalog, approved, desiredCount, queue, cur, qi, matched, unmatched,
                 usedUris, attemptedTrackKeys, materializerVars, response, resolved,
                 catalogCalls, rejected>>
  /\ UNCHANGED <<authVars, fnVars, previewVars, slackVars>>

\* the round's generateTracklist call returns or throws
ExpandGenerated ==
  /\ pc = "expandgen"
  /\ \E k \in 1..NumCompletions :
       LET r == generateTracklist(Completions[k], genRequest.trackCount)
       IN IF r.ok
            THEN /\ queue' = r.tracks
                 /\ phase' = "expand"
                 /\ pc' = "match"
                 /\ response' = response
            ELSE /\ Respond(500, "generation")
                 /\ UNCHANGED <<queue, phase>>
  /\ UNCHANGED <<catalog, approved, desiredCount, cur, qi, engineVars, materializerVars,
                 genRequest, genCalls, resolved, catalogCalls, rejected>>
  /\ UNCHANGED <<authVars, fnVars, previewVars, slackVars>>

\* a short pool that goes to the duplicate fill without the fallback pass
FallbackStart_NoPass ==
  /\ pc = "loop"
  /\ ~ExpandGuard(matched, desiredCount, attempt)
  /\ Len(matched) < desiredCount
  /\ pc' = "fill"
  /\ UNCHANGED <<phase, catalog, approved, desiredCount, queue, cur, qi, engineVars,
                 materializerVars, response, genRequest, genCalls, resolved, catalogCalls,
                 rejected>>
  /\ UNCHANGED <<authVars, fnVars, previewVars, slackVars>>

\* the loop is over and the pool is short: the fallback tracks are matched
FallbackStart ==
  /\ pc = "loop"
  /\ ~ExpandGuard(matched, desiredCount, attempt)
  /\ Len(matched) < desiredCount
  /\ queue' = EMERGENCY_FALLBACK_TRACKS
  /\ phase' = "fallback"
  /\ pc' = "match"
  /\ UNCHANGED <<catalog, approved, desiredCount, cur, qi, engineVars, materializerVars,
                 response, genRequest, genCalls, resolved, catalogCalls, rejected>>
  /\ UNCHANGED <<authVars, fnVars, previewVars, slackVars>>

\* the loop is over and the pool is full
FallbackSkip ==
  /\ pc = "loop"
  /\ ~ExpandGuard(matched, desiredCount, attempt)
  /\ ~(Len(matched) < desiredCount)
  /\ pc' = "fill"
  /\ UNCHANGED <<phase, catalog, approved, desiredCount, queue, cur, qi, engineVars,
                 materializerVars, response, genRequest, genCalls, resolved, catalogCalls,
                 rejected>>
  /\ UNCHANGED <<authVars, fnVars, previewVars, slackVars>>

\* `${clone.matched} (duplicate fill)`
DuplicateFillSuffix ==
  <<" ", "(", "d", "u", "p", "l", "i", "c", "a", "t", "e", " ", "f", "i", "l", "l", ")">>

CloneOf(clone) ==
  [requested |-> clone.requested, matched |-> clone.matched \o DuplicateFillSuffix,
   uri |-> clone.uri, duplicated |-> TRUE]

\* a fill that asks for two matches before it clones
DuplicateFill_NeedsTwo(ms, desired) ==
  IF Len(ms) < desired /\ Len(ms) > 1
    THEN [matched |-> ms \o [idx \in 1..(desired - Len(ms)) |->
                               CloneOf(ms[((idx - 1) % Len(ms)) + 1])],
          duplicateFillCount |-> desired - Len(ms)]
    ELSE [matched |-> ms, duplicateFillCount |-> 0]

\* a fill whose round-robin starts at the second entry
DuplicateFill_OffByOne(ms, desired) ==
  IF Len(ms) < desired /\ Len(ms) > 0
    THEN [matched |-> ms \o [idx \in 1..(desired - Len(ms)) |->
                               CloneOf(ms[(idx % Len(ms)) + 1])],
          duplicateFillCount |-> desired - Len(ms)]
    ELSE [matched |-> ms, duplicateFillCount |-> 0]

\* a fill that puts the clones in front
DuplicateFill_ClonesFirst(ms, desired) ==
  IF Len(ms) < desired /\ Len(ms) > 0
    THEN [matched |-> [idx \in 1..(desired - Len(ms)) |->
                         CloneOf(ms[((idx - 1) % Len(ms)) + 1])] \o ms,
          duplicateFillCount |-> desired - Len(ms)]
    ELSE [matched |-> ms, duplicateFillCount |-> 0]

\* the duplicate fill of buildMatchedTrackPool: [matched, duplicateFillCount]
DuplicateFill(ms, desired) ==
  IF Len(ms) < desired /\ Len(ms) > 0
    THEN [matched |-> ms \o [idx \in 1..(desired - Len(ms)) |->
                               CloneOf(ms[((idx - 1) % Len(ms)) + 1])],
          duplicateFillCount |-> desired - Len(ms)]
    ELSE [matched |-> ms, duplicateFillCount |-> 0]

\* a return that hands back the whole pool
Returned_NoSlice(ms, um, duplicateFillCount, desired) ==
  [matched |-> ms, unmatched |-> um, duplicateFillCount |-> duplicateFillCount]

\* what buildMatchedTrackPool returns
Returned(ms, um, duplicateFillCount, desired) ==
  [matched |-> SliceTo(ms, desired), unmatched |-> um,
   duplicateFillCount |-> duplicateFillCount]

\* still short after the duplicate fill: buildMatchedTrackPool throws
BuildFailed ==
  /\ pc = "fill"
  /\ LET filled == DuplicateFill(matched, desiredCount)
     IN /\ Len(filled.matched) < desiredCount
        /\ matched' = filled.matched
        /\ response' = [status |-> 500, error |-> "insufficient",
                        achieved |-> Len(filled.matched), desired |-> desiredCount]
  /\ pc' = "done"
  /\ UNCHANGED <<phase, catalog, approved, desiredCount, queue, cur, qi, unmatched, usedUris,
                 attemptedTrackKeys, attempt, materializerVars, genRequest, genCalls, resolved,
                 catalogCalls, rejected>>
  /\ UNCHANGED <<authVars, fnVars, previewVars, slackVars>>

\* buildMatchedTrackPool returns; createPlaylistFromInputs issues POST /me/playlists
BuildReturned ==
  /\ pc = "fill"
  /\ LET filled == DuplicateFill(matched, desiredCount)
     IN /\ ~(Len(filled.matched) < desiredCount)
        /\ matched' = filled.matched
        /\ built' = Returned(filled.matched, unmatched, filled.duplicateFillCount,
                             desiredCount)
  /\ catalogCalls' = catalogCalls + 1
  /\ pc' = "create"
  /\ UNCHANGED <<phase, catalog, approved, desiredCount, queue, cur, qi, unmatched, usedUris,
                 attemptedTrackKeys, attempt, playlists, uris, appendIdx, appended,
                 response, genRequest, genCalls, resolved, rejected>>
  /\ UNCHANGED <<authVars, fnVars, previewVars, slackVars>>

(***************************************************************************)
(* buildMatchedTrackPool invoked on its own, with the desiredCount and the *)
(* seedCandidates its caller hands it                                      *)
(***************************************************************************)
\* the desiredCount values of a direct invocation
EngineDesiredCounts == {0, MinTrackCount}

\* buildMatchedTrackPool({ desiredCount, seedCandidates }) up to its first await
EngineCall ==
  /\ pc = "idle"
  /\ \E desired \in EngineDesiredCounts, a \in 1..NumApprovedLists, c \in 1..NumCatalogs :
       /\ desiredCount' = desired
       /\ catalog' = c
       /\ approved' = a
       /\ queue' = SeedsOf(ApprovedLists[a])
  /\ phase' = "seed"
  /\ pc' = "match"
  /\ UNCHANGED <<cur, qi, engineVars, materializerVars, response, genRequest, genCalls,
                 resolved, catalogCalls, rejected>>
  /\ UNCHANGED <<authVars, fnVars, previewVars, slackVars>>

\* buildMatchedTrackPool returns to that caller
EngineReturned ==
  /\ pc = "fill"
  /\ LET filled == DuplicateFill(matched, desiredCount)
     IN /\ ~(Len(filled.matched) < desiredCount)
        /\ matched' = filled.matched
        /\ built' = Returned(filled.matched, unmatched, filled.duplicateFillCount,
                             desiredCount)
  /\ pc' = "returned"
  /\ UNCHANGED <<phase, catalog, approved, desiredCount, queue, cur, qi, unmatched, usedUris,
                 attemptedTrackKeys, attempt, playlists, uris, appendIdx, appended,
                 response, genRequest, genCalls, resolved, catalogCalls, rejected>>
  /\ UNCHANGED <<authVars, fnVars, previewVars, slackVars>>

EngineNext ==
  \/ EngineCall
  \/ MatchDone \/ MatchSkip \/ MatchResolve
  \/ SearchRejected \/ SearchMatched \/ SearchNextQuery \/ SearchUnmatched
  \/ ExpandStart \/ ExpandGenerated \/ FallbackStart \/ FallbackSkip
  \/ BuildFailed \/ EngineReturned

SpecEngine == Init /\ [][EngineNext]_vars

\* the for loop of matchCandidatesToSpotify goes on to its next candidate, skipped or
\* resolved
MatchAdvance ==
  /\ pc = "match"
  /\ queue # <<>>
  /\ queue' = Tail(queue)

\* every call the engine awaits returns or throws, and the code between two awaits runs on
SpecLive ==
  /\ Init
  /\ [][EngineNext]_vars
  /\ WF_queue(MatchAdvance)
  /\ WF_vars(MatchDone \/ SearchRejected \/ SearchMatched \/ SearchNextQuery
               \/ SearchUnmatched \/ ExpandStart \/ ExpandGenerated \/ FallbackStart
               \/ FallbackSkip \/ BuildFailed \/ EngineReturned)

(***************************************************************************)
(* An expansion round after a seed pass over a long list of approved       *)
(* tracks: the seed pass has ended with m matches and u misses             *)
(***************************************************************************)
Digits == <<"0", "1", "2", "3", "4", "5", "6", "7", "8", "9">>

RECURSIVE NumeralOf(_)
NumeralOf(i) ==
  IF i < 10 THEN <<Digits[i + 1]>>
  ELSE NumeralOf(i \div 10) \o <<Digits[(i % 10) + 1]>>

\* the i-th approved track of the list and what the catalog matched it to
SeedNo(i) == Cand(<<"t">> \o NumeralOf(i), T_xx)

SeedUriNo(i) == "spotify:track:n" \o ToString(i)

\* the most matches and misses the seed pass ends with
MaxSeedMatched == 42
MaxSeedUnmatched == 45

\* line 281 has returned: the first m approved tracks matched, the next u did not
SeedPassEnded ==
  /\ pc = "idle"
  /\ \E m \in 0..MaxSeedMatched, u \in 0..MaxSeedUnmatched :
       LET keys == [i \in 1..(m + u) |-> makeTrackKey(SeedNo(i).title, SeedNo(i).artist)]
       IN /\ matched' = [i \in 1..m |->
                           MatchEntry(SeedNo(i),
                                      [uri |-> SeedUriNo(i),
                                       matchedName |-> SeedNo(i).title \o <<" ", "-", " ">> \o T_xx])]
          /\ unmatched' = [i \in 1..u |-> SeedNo(m + i)]
          /\ usedUris' = {SeedUriNo(i) : i \in 1..m}
          /\ attemptedTrackKeys' = {keys[i] : i \in 1..(m + u)}
          /\ resolved' = keys
          /\ catalogCalls' = m + 2 * u
  /\ desiredCount' = MaxTrackCount
  /\ phase' = "seed"
  /\ pc' = "loop"
  /\ UNCHANGED <<catalog, approved, queue, cur, qi, attempt, materializerVars, response,
                 genRequest, genCalls, rejected>>
  /\ UNCHANGED <<authVars, fnVars, previewVars, slackVars>>

RoundNext == SeedPassEnded \/ ExpandStart

SpecRound == Init /\ [][RoundNext]_vars

(***************************************************************************)
(* The playlist materializer (the rest of createPlaylistFromInputs)        *)
(***************************************************************************)
UrisOf(ms) == [i \in 1..Len(ms) |-> ms[i].uri]

\* a slice that starts one entry late
BatchAt_SkipsFirst(us, i) == SubSeq(us, i + 2, Min(Len(us), i + AppendBatchSize))

\* uris.slice(i, i + 100)
BatchAt(us, i) == SubSeq(us, i + 1, Min(Len(us), i + AppendBatchSize))

\* the body sent when createPlaylistFromInputs returns
Created ==
  [status |-> 200,
   trackCountRequested |-> desiredCount,
   trackCountCreated |-> Len(uris),
   matched |-> built.matched,
   unmatched |-> built.unmatched,
   duplicateFillCount |-> built.duplicateFillCount]

\* POST /me/playlists is rejected
CreateRejected ==
  /\ pc = "create"
  /\ \E status \in ErrorStatuses :
       /\ rejected' = rejected \cup {status}
       /\ Respond(status, "catalog")
  /\ UNCHANGED <<phase, catalog, approved, desiredCount, queue, cur, qi, engineVars,
                 materializerVars, genRequest, genCalls, resolved, catalogCalls>>
  /\ UNCHANGED <<authVars, fnVars, previewVars, slackVars>>

\* POST /me/playlists succeeds: the container exists, the append loop starts
CreateReturned ==
  /\ pc = "create"
  /\ playlists' = playlists + 1
  /\ uris' = UrisOf(built.matched)
  /\ appendIdx' = 0
  /\ IF 0 < Len(UrisOf(built.matched))
       THEN /\ catalogCalls' = catalogCalls + 1
            /\ pc' = "append"
            /\ response' = response
       ELSE /\ catalogCalls' = catalogCalls
            /\ pc' = "done"
            /\ response' = [Created EXCEPT !.trackCountCreated = 0]
  /\ UNCHANGED <<phase, catalog, approved, desiredCount, queue, cur, qi, engineVars, built,
                 appended, genRequest, genCalls, resolved, rejected>>
  /\ UNCHANGED <<authVars, fnVars, previewVars, slackVars>>

\* POST /playlists/{id}/items is rejected
AppendRejected ==
  /\ pc = "append"
  /\ \E status \in ErrorStatuses :
       /\ rejected' = rejected \cup {status}
       /\ Respond(status, "catalog")
  /\ UNCHANGED <<phase, catalog, approved, desiredCount, queue, cur, qi, engineVars,
                 materializerVars, genRequest, genCalls, resolved, catalogCalls>>
  /\ UNCHANGED <<authVars, fnVars, previewVars, slackVars>>

\* a batch is appended: the next batch is sent, or the result is returned
AppendReturned ==
  /\ pc = "append"
  /\ appended' = Append(appended, BatchAt(uris, appendIdx))
  /\ appendIdx' = appendIdx + AppendBatchSize
  /\ IF appendIdx + AppendBatchSize < Len(uris)
       THEN /\ catalogCalls' = catalogCalls + 1
            /\ UNCHANGED <<pc, response>>
       ELSE /\ catalogCalls' = catalogCalls
            /\ pc' = "done"
            /\ response' = Created
  /\ UNCHANGED <<phase, catalog, approved, desiredCount, queue, cur, qi, engineVars, built,
                 playlists, uris, genRequest, genCalls, resolved, rejected>>
  /\ UNCHANGED <<authVars, fnVars, previewVars, slackVars>>

(***************************************************************************)
(* One POST /api/preview-playlist request                                  *)
(***************************************************************************)
\* the route refuses the request before it generates
PreviewRefuse ==
  /\ pc = "idle"
  /\ \E status \in {400, 401} :
       /\ response' = [status |-> status, error |-> "refused"]
       /\ pc' = "done"
  /\ UNCHANGED <<phase, catalog, approved, desiredCount, queue, cur, qi, engineVars,
                 materializerVars, genRequest, genCalls, resolved, catalogCalls, rejected>>
  /\ UNCHANGED <<authVars, fnVars, previewVars, slackVars>>

\* the route up to its generateTracklist call
PreviewReceive ==
  /\ pc = "idle"
  /\ \E trackCount \in TrackCountInputs, c \in 1..NumCatalogs :
       /\ desiredCount' = clampTrackCount(trackCount)
       /\ catalog' = c
       /\ genRequest' = GenRequest(clampTrackCount(trackCount), <<>>)
  /\ UNCHANGED approved
  /\ genCalls' = genCalls + 1
  /\ phase' = "preview"
  /\ pc' = "previewgen"
  /\ UNCHANGED <<queue, cur, qi, engineVars, materializerVars, response, resolved,
                 catalogCalls, rejected>>
  /\ UNCHANGED <<authVars, fnVars, previewVars, slackVars>>

\* generateTracklist returns or throws
PreviewGenerated ==
  /\ pc = "previewgen"
  /\ \E k \in 1..NumCompletions :
       LET r == generateTracklist(Completions[k], genRequest.trackCount)
       IN IF r.ok
            THEN /\ generatedTracks' = r.tracks
                 /\ queue' = r.tracks
                 /\ pc' = "previewloop"
                 /\ response' = response
            ELSE /\ response' = [status |-> 500, error |-> "generation"]
                 /\ pc' = "done"
                 /\ UNCHANGED <<generatedTracks, queue>>
  /\ UNCHANGED <<phase, catalog, approved, desiredCount, cur, qi, engineVars, materializerVars,
                 genRequest, genCalls, resolved, catalogCalls, rejected, previewRows>>
  /\ UNCHANGED <<authVars, fnVars, slackVars>>

\* the next candidate of the for loop: its key is noted and its first search issued
PreviewResolve ==
  /\ pc = "previewloop"
  /\ queue # <<>>
  /\ LET key == makeTrackKey(Head(queue).title, Head(queue).artist)
     IN /\ attemptedTrackKeys' =
             (IF ~AlreadyAttempted(attemptedTrackKeys, key)
                THEN attemptedTrackKeys \cup {key} ELSE attemptedTrackKeys)
        /\ resolved' = Append(resolved, key)
  /\ cur' = Head(queue)
  /\ queue' = Tail(queue)
  /\ qi' = 1
  /\ catalogCalls' = catalogCalls + 1
  /\ pc' = "previewsearch"
  /\ UNCHANGED <<phase, catalog, approved, desiredCount, matched, unmatched, usedUris, attempt,
                 materializerVars, response, genRequest, genCalls, rejected>>
  /\ UNCHANGED <<authVars, fnVars, previewVars, slackVars>>

\* spotifyRequest throws: the route's catch block answers 500
PreviewSearchRejected ==
  /\ pc = "previewsearch"
  /\ \E status \in ErrorStatuses :
       /\ rejected' = rejected \cup {status}
       /\ response' = [status |-> 500, error |-> "catalog"]
  /\ pc' = "done"
  /\ UNCHANGED <<phase, catalog, approved, desiredCount, queue, cur, qi, engineVars,
                 materializerVars, genRequest, genCalls, resolved, catalogCalls>>
  /\ UNCHANGED <<authVars, fnVars, previewVars, slackVars>>

PreviewRow(candidate, match) ==
  IF match # Null
    THEN [requested |-> candidate, matched |-> TRUE, matchedName |-> match.matchedName]
    ELSE [requested |-> candidate, matched |-> FALSE, matchedName |-> <<>>]

\* a match that is pushed whether or not its uri is in use
PreviewSearchMatched_NoGate ==
  /\ pc = "previewsearch"
  /\ CurMatch # Null
  /\ usedUris' = usedUris \cup {CurMatch.uri}
  /\ matched' = Append(matched, MatchEntry(cur, CurMatch))
  /\ previewRows' = Append(previewRows, PreviewRow(cur, CurMatch))
  /\ pc' = "previewloop"
  /\ UNCHANGED <<phase, catalog, approved, desiredCount, queue, cur, qi, unmatched,
                 attemptedTrackKeys, attempt, materializerVars, response, genRequest, genCalls,
                 resolved, catalogCalls, rejected, generatedTracks>>
  /\ UNCHANGED <<authVars, fnVars, slackVars>>

\* the search yields a confident match
PreviewSearchMatched ==
  /\ pc = "previewsearch"
  /\ CurMatch # Null
  /\ IF ~UriUsed(usedUris, CurMatch.uri)
       THEN /\ usedUris' = usedUris \cup {CurMatch.uri}
            /\ matched' = Append(matched, MatchEntry(cur, CurMatch))
       ELSE UNCHANGED <<usedUris, matched>>
  /\ previewRows' = Append(previewRows, PreviewRow(cur, CurMatch))
  /\ pc' = "previewloop"
  /\ UNCHANGED <<phase, catalog, approved, desiredCount, queue, cur, qi, unmatched,
                 attemptedTrackKeys, attempt, materializerVars, response, genRequest, genCalls,
                 resolved, catalogCalls, rejected, generatedTracks>>
  /\ UNCHANGED <<authVars, fnVars, slackVars>>

\* no confident match from the first query: the second query is issued
PreviewSearchNextQuery ==
  /\ pc = "previewsearch"
  /\ CurMatch = Null
  /\ qi < NumQueries
  /\ qi' = qi + 1
  /\ catalogCalls' = catalogCalls + 1
  /\ UNCHANGED <<pc, phase, catalog, approved, desiredCount, queue, cur, engineVars,
                 materializerVars, response, genRequest, genCalls, resolved, rejected>>
  /\ UNCHANGED <<authVars, fnVars, previewVars, slackVars>>

\* neither query matched
PreviewSearchUnmatched ==
  /\ pc = "previewsearch"
  /\ CurMatch = Null
  /\ qi >= NumQueries
  /\ unmatched' = Append(unmatched, cur)
  /\ previewRows' = Append(previewRows, PreviewRow(cur, Null))
  /\ pc' = "previewloop"
  /\ UNCHANGED <<phase, catalog, approved, desiredCount, queue, cur, qi, matched, usedUris,
                 attemptedTrackKeys, attempt, materializerVars, response, genRequest, genCalls,
                 resolved, catalogCalls, rejected, generatedTracks>>
  /\ UNCHANGED <<authVars, fnVars, slackVars>>

\* the loop is over: res.json
PreviewDone ==
  /\ pc = "previewloop"
  /\ queue = <<>>
  /\ response' = [status |-> 200, previewTrackCount |-> desiredCount,
                  generatedTracks |-> generatedTracks, previewRows |-> previewRows,
                  matched |-> matched, unmatched |-> unmatched]
  /\ pc' = "done"
  /\ UNCHANGED <<phase, catalog, approved, desiredCount, queue, cur, qi, engineVars,
                 materializerVars, genRequest, genCalls, resolved, catalogCalls, rejected>>
  /\ UNCHANGED <<authVars, fnVars, previewVars, slackVars>>

PreviewNext ==
  \/ PreviewRefuse \/ PreviewReceive \/ PreviewGenerated \/ PreviewResolve
  \/ PreviewSearchRejected \/ PreviewSearchMatched \/ PreviewSearchNextQuery
  \/ PreviewSearchUnmatched \/ PreviewDone

SpecPreview == Init /\ [][PreviewNext]_vars

(***************************************************************************)
(* /slack/commands and /slack/interactions: approve interactions run       *)
(* concurrently and share pendingSlackApprovals; an interaction is         *)
(* suspended only while createPlaylistFromInputs runs                      *)
(***************************************************************************)
\* /slack/commands stores the previewed request under a fresh id
SlackCommand ==
  /\ \E approvalId \in ApprovalIds \ approvalsIssued :
       /\ approvalsIssued' = approvalsIssued \cup {approvalId}
       /\ pendingSlackApprovals' = pendingSlackApprovals \cup {approvalId}
  /\ UNCHANGED <<interactions, creations>>
  /\ UNCHANGED <<requestVars, authVars, fnVars, previewVars>>

\* a handler that leaves the entry in the map
Interact_NoDelete(p) ==
  /\ interactions[p].pc = "idle"
  /\ \E approvalId \in ApprovalIds :
       IF approvalId \notin pendingSlackApprovals
         THEN /\ interactions' = [interactions EXCEPT
                   ![p] = [pc |-> "done", id |-> approvalId, reply |-> "expired",
                           outcome |-> "none"]]
              /\ UNCHANGED <<pendingSlackApprovals, creations>>
         ELSE /\ interactions' = [interactions EXCEPT
                   ![p] = [pc |-> "creating", id |-> approvalId, reply |-> "creating",
                           outcome |-> "none"]]
              /\ creations' = [creations EXCEPT ![approvalId] = @ + 1]
              /\ UNCHANGED pendingSlackApprovals
  /\ UNCHANGED approvalsIssued
  /\ UNCHANGED <<requestVars, authVars, fnVars, previewVars>>

\* /slack/interactions from the lookup to the first await: the expired reply, or the
\* delete, the 'Creating playlist' reply and the call of createPlaylistFromInputs
Interact(p) ==
  /\ interactions[p].pc = "idle"
  /\ \E approvalId \in ApprovalIds :
       IF approvalId \notin pendingSlackApprovals
         THEN /\ interactions' = [interactions EXCEPT
                   ![p] = [pc |-> "done", id |-> approvalId, reply |-> "expired",
                           outcome |-> "none"]]
              /\ UNCHANGED <<pendingSlackApprovals, creations>>
         ELSE /\ pendingSlackApprovals' = pendingSlackApprovals \ {approvalId}
              /\ interactions' = [interactions EXCEPT
                   ![p] = [pc |-> "creating", id |-> approvalId, reply |-> "creating",
                           outcome |-> "none"]]
              /\ creations' = [creations EXCEPT ![approvalId] = @ + 1]
  /\ UNCHANGED approvalsIssued
  /\ UNCHANGED <<requestVars, authVars, fnVars, previewVars>>

\* createPlaylistFromInputs returns: 'Playlist created' is posted
InteractionCreated(p) ==
  /\ interactions[p].pc = "creating"
  /\ interactions' = [interactions EXCEPT ![p].pc = "done", ![p].outcome = "created"]
  /\ UNCHANGED <<pendingSlackApprovals, approvalsIssued, creations>>
  /\ UNCHANGED <<requestVars, authVars, fnVars, previewVars>>

\* createPlaylistFromInputs throws: the catch posts 'Playlist creation failed'
InteractionFailed(p) ==
  /\ interactions[p].pc = "creating"
  /\ interactions' = [interactions EXCEPT ![p].pc = "done", ![p].outcome = "failed"]
  /\ UNCHANGED <<pendingSlackApprovals, approvalsIssued, creations>>
  /\ UNCHANGED <<requestVars, authVars, fnVars, previewVars>>

SlackNext ==
  \/ SlackCommand
  \/ \E p \in Interactions : Interact(p)
  \/ \E p \in Interactions : InteractionCreated(p)
  \/ \E p \in Interactions : InteractionFailed(p)

SpecSlack == Init /\ [][SlackNext]_vars

(***************************************************************************)
(* spotifyRequest and refreshSpotifyTokenIfNeeded, called by requests that *)
(* run concurrently: a call is suspended at the token fetch or at the API  *)
(* fetch, and the session is shared by all of them                         *)
(***************************************************************************)
\* 60_000 ms, the margin before expiry at which the token is refreshed
RefreshMargin == 1

\* data.expires_in of a token response, in the unit of `now`
ExpiresInValues == {2, 3}

\* the clock stops here
MaxNow == 4

\* Date.now() < session.expiresAt - 60_000
TokenFresh(s, t) == t < s.expiresAt - RefreshMargin

AuthTick ==
  /\ now < MaxNow
  /\ now' = now + 1
  /\ UNCHANGED <<session, callPc, bearer, tokensIssued>>
  /\ UNCHANGED <<requestVars, fnVars, previewVars, slackVars>>

\* spotifyRequest with a fresh token: refreshSpotifyTokenIfNeeded returns at
\* once and the API fetch is sent
AuthCallFresh(p) ==
  /\ callPc[p] = "idle"
  /\ session.refreshToken
  /\ TokenFresh(session, now)
  /\ bearer' = [bearer EXCEPT ![p] = session.accessToken]
  /\ callPc' = [callPc EXCEPT ![p] = "calling"]
  /\ UNCHANGED <<now, session, tokensIssued>>
  /\ UNCHANGED <<requestVars, fnVars, previewVars, slackVars>>

\* spotifyRequest with a token at or near expiry: the token fetch is sent
AuthCallRefresh(p) ==
  /\ callPc[p] = "idle"
  /\ session.refreshToken
  /\ ~TokenFresh(session, now)
  /\ callPc' = [callPc EXCEPT ![p] = "refreshing"]
  /\ UNCHANGED <<now, session, bearer, tokensIssued>>
  /\ UNCHANGED <<requestVars, fnVars, previewVars, slackVars>>

\* the token fetch succeeds: the session is updated and the API fetch is sent
AuthRefreshed(p) ==
  /\ callPc[p] = "refreshing"
  /\ \E expiresIn \in ExpiresInValues :
       session' = [session EXCEPT !.accessToken = tokensIssued + 1,
                                  !.expiresAt = now + expiresIn]
  /\ tokensIssued' = tokensIssued + 1
  /\ bearer' = [bearer EXCEPT ![p] = tokensIssued + 1]
  /\ callPc' = [callPc EXCEPT ![p] = "calling"]
  /\ UNCHANGED now
  /\ UNCHANGED <<requestVars, fnVars, previewVars, slackVars>>

\* the token fetch fails: refreshSpotifyTokenIfNeeded throws
AuthRefreshFailed(p) ==
  /\ callPc[p] = "refreshing"
  /\ callPc' = [callPc EXCEPT ![p] = "idle"]
  /\ UNCHANGED <<now, session, bearer, tokensIssued>>
  /\ UNCHANGED <<requestVars, fnVars, previewVars, slackVars>>

\* the API fetch is answered: spotifyRequest returns or throws
AuthReturned(p) ==
  /\ callPc[p] = "calling"
  /\ callPc' = [callPc EXCEPT ![p] = "idle"]
  /\ UNCHANGED <<now, session, bearer, tokensIssued>>
  /\ UNCHANGED <<requestVars, fnVars, previewVars, slackVars>>

AuthNext ==
  \/ AuthTick
  \/ \E p \in Callers : AuthCallFresh(p)
  \/ \E p \in Callers : AuthCallRefresh(p)
  \/ \E p \in Callers : AuthRefreshed(p)
  \/ \E p \in Callers : AuthRefreshFailed(p)
  \/ \E p \in Callers : AuthReturned(p)

SpecAuth == Init /\ [][AuthNext]_vars

Next ==
  \/ Refuse \/ Receive \/ SeedGenerated
  \/ MatchDone \/ MatchSkip \/ MatchResolve
  \/ SearchRejected \/ SearchMatched \/ SearchNextQuery \/ SearchUnmatched
  \/ ExpandStart \/ ExpandGenerated \/ FallbackStart \/ FallbackSkip
  \/ BuildFailed \/ BuildReturned
  \/ CreateRejected \/ CreateReturned \/ AppendRejected \/ AppendReturned

Spec == Init /\ [][Next]_vars
(***************************************************************************)
(* The functions of server.js applied on their own, once each run: `call`  *)
(* holds the arguments and the result of the application                   *)
(***************************************************************************)
\* the characters the texts below are written in
Alphabet == {"a", "B", "7", " ", "\t", "|", "!"}

RECURSIVE TextsOfLen(_)
TextsOfLen(n) ==
  IF n = 0 THEN {<<>>}
  ELSE {Append(t, ch) : t \in TextsOfLen(n - 1), ch \in Alphabet}

\* the longest text normalizeText is applied to
MaxTextLen == 3

Texts == UNION {TextsOfLen(n) : n \in 0..MaxTextLen}

\* the titles and artists makeTrackKey is applied to
KeyTexts ==
  { <<>>, <<"a">>, <<"A", "!">>, <<"b">>, <<"c">>, <<"|">>,
    <<"a", "|", "b">>, <<"a", " ", "b">>, <<"b", "|", "c">>,
    <<" ", "a", "\t", " ", "B">> }

\* the artist names of search results and of requests
N_TheWeeknd == <<"T", "h", "e", " ", "W", "e", "e", "k", "n", "d">>
N_WeekndLoud == <<"t", "h", "e", " ", "w", "e", "e", "k", "n", "d", "!", "!">>
N_Weeknd == <<"W", "e", "e", "k", "n", "d">>
N_WeekndThe == <<"W", "e", "e", "k", "n", "d", " ", "T", "h", "e">>
N_TheBand == <<"T", "h", "e", " ", "B", "a", "n", "d">>
N_AcDc == <<"A", "C", "/", "D", "C">>
N_Acdc == <<"A", "C", "D", "C">>
N_Bang == <<"!", "!", "!">>

ArtistNames ==
  {<<>>, N_TheWeeknd, N_WeekndLoud, N_Weeknd, N_WeekndThe, N_TheBand, N_AcDc, N_Acdc, N_Bang}

\* the most artists an item carries
MaxArtists == 2

RECURSIVE ListsOfLen(_, _)
ListsOfLen(S, n) ==
  IF n = 0 THEN {<<>>}
  ELSE {Append(l, e) : l \in ListsOfLen(S, n - 1), e \in S}

ListsUpTo(S, n) == UNION {ListsOfLen(S, k) : k \in 0..n}

\* the items a search may return
ResultItems ==
  { Item("spotify:track:r1", T_Go, N_TheWeeknd),
    Item("spotify:track:r2", T_Go, N_WeekndLoud),
    Item("spotify:track:r3", T_Up, N_Weeknd),
    Item("spotify:track:r4", T_Hi, N_TheBand),
    Item("spotify:track:r5", T_Ok, N_WeekndThe) }

RequestedArtists == {<<>>, N_TheWeeknd, N_Weeknd, N_Acdc}

\* the most items of a search response the model draws (the code asks for limit=5)
MaxResults == 3

\* the trackCount values generateTracklist is called with
GenerateTrackCounts == {MinTrackCount, MinGenerateCount, MaxGenerateCount}

ApplyNormalizeText ==
  /\ call = Null
  /\ \E value \in Texts :
       call' = [fn |-> "normalizeText", value |-> value, result |-> normalizeText(value)]
  /\ UNCHANGED <<requestVars, authVars, previewVars, slackVars>>

ApplyMakeTrackKey ==
  /\ call = Null
  /\ \E t1 \in KeyTexts, a1 \in KeyTexts, t2 \in KeyTexts, a2 \in KeyTexts :
       call' = [fn |-> "makeTrackKey",
                a |-> Cand(t1, a1), keyA |-> makeTrackKey(t1, a1),
                b |-> Cand(t2, a2), keyB |-> makeTrackKey(t2, a2)]
  /\ UNCHANGED <<requestVars, authVars, previewVars, slackVars>>

ApplyGenerateTracklist ==
  /\ call = Null
  /\ \E k \in 1..NumCompletions, trackCount \in GenerateTrackCounts :
       call' = [fn |-> "generateTracklist", content |-> Completions[k],
                trackCount |-> trackCount,
                result |-> generateTracklist(Completions[k], trackCount)]
  /\ UNCHANGED <<requestVars, authVars, previewVars, slackVars>>

ApplyGetArtistConfidence ==
  /\ call = Null
  /\ \E names \in ListsUpTo(ArtistNames, MaxArtists), requestedArtist \in ArtistNames :
       LET itemArtists == [i \in 1..Len(names) |-> [name |-> names[i]]]
       IN call' = [fn |-> "getArtistConfidence", itemArtists |-> itemArtists,
                   requestedArtist |-> requestedArtist,
                   result |-> getArtistConfidence(itemArtists, requestedArtist)]
  /\ UNCHANGED <<requestVars, authVars, previewVars, slackVars>>

ApplyPickBestTrackCandidate ==
  /\ call = Null
  /\ \E items \in ListsUpTo(ResultItems, MaxResults), requestedArtist \in RequestedArtists :
       call' = [fn |-> "pickBestTrackCandidate", items |-> items,
                requestedArtist |-> requestedArtist,
                result |-> pickBestTrackCandidate(items, requestedArtist)]
  /\ UNCHANGED <<requestVars, authVars, previewVars, slackVars>>

\* line 382; its value is the desiredCount of line 396
ApplyClampTrackCount ==
  /\ call = Null
  /\ \E value \in TrackCountInputs :
       call' = [fn |-> "clampTrackCount", value |-> value, result |-> clampTrackCount(value)]
  /\ UNCHANGED <<requestVars, authVars, previewVars, slackVars>>

FnNext ==
  \/ ApplyClampTrackCount
  \/ ApplyNormalizeText
  \/ ApplyMakeTrackKey
  \/ ApplyGenerateTracklist
  \/ ApplyGetArtistConfidence
  \/ ApplyPickBestTrackCandidate

SpecFn == Init /\ [][FnNext]_vars

(***************************************************************************)
(* Properties of the reconciliation engine and the materializer           *)
(***************************************************************************)
Insufficient ==
  response # NoResponse /\ response.status = 500 /\ response.error = "insufficient"

Succeeded == response # NoResponse /\ response.status = 200

\* how many findSpotifyTrackUri calls returned a match (none is in flight)
Hits == Len(resolved) - Len(unmatched)

NonDuplicated(ms) == {i \in 1..Len(ms) : ~ms[i].duplicated}

\* C1: whenever buildMatchedTrackPool returns, the matched list it returns has
\* exactly desiredCount entries, and a created playlist reports
\* trackCountCreated = trackCountRequested.
C1_ExactLength ==
  /\ built # Null => Len(built.matched) = desiredCount
  /\ Succeeded => /\ response.trackCountCreated = response.trackCountRequested
                  /\ Len(response.matched) = response.trackCountRequested

\* a request that succeeded after a round had overshot the desired count
C1_Witness == Succeeded /\ Len(matched) > desiredCount

\* every entry of a list has exactly one entry of its uri that is not marked duplicated
UniqueUnlessDuplicated(ms) ==
  \A i \in 1..Len(ms) :
     Cardinality({j \in NonDuplicated(ms) : ms[j].uri = ms[i].uri}) = 1

\* C2: in the matched list (during the run and as returned) no two entries that
\* are not marked duplicated share a uri; a uri that occurs more than once has
\* exactly one occurrence that is not marked duplicated.
C2_UniqueUris ==
  /\ UniqueUnlessDuplicated(matched)
  /\ built # Null => UniqueUnlessDuplicated(built.matched)

\* a returned list with clones, from a run in which a candidate resolved to a
\* uri that was already used and was dropped
C2_Witness ==
  /\ built # Null
  /\ built.duplicateFillCount > 0
  /\ Len(resolved) > (Len(built.matched) - built.duplicateFillCount) + Len(built.unmatched)

\* C3: a build run in which no call fails ends in the insufficient-matches
\* failure exactly if no track resolved; the failure carries achieved = 0 and
\* the desired count; with one or more tracks resolved the run returns.
C3_FailsIffNothingResolved ==
  /\ Insufficient => /\ Hits = 0
                     /\ response.achieved = 0
                     /\ response.desired = desiredCount
                     /\ built = Null
  /\ built # Null => Hits >= 1
  /\ (pc \in {"create", "append"} \/ Succeeded) => built # Null

\* a run that failed for want of matches after the fallback pass
C3_Witness == Insufficient /\ phase = "fallback" /\ Len(resolved) >= Len(EMERGENCY_FALLBACK_TRACKS)

\* C4: a generation call that fails in an expansion round does not end the
\* build run: the run goes on with the next round or the fallback.
C4_ExpansionFailureNotFatal ==
  ~(/\ response # NoResponse
    /\ response.status = 500
    /\ response.error = "generation"
    /\ attempt >= 1)

\* C5: once a catalog call of the request was rejected with 403, the request
\* has ended with a 403 response and no playlist container exists for it.
C5_No403Partial ==
  403 \in rejected => /\ pc = "done"
                      /\ response.status = 403
                      /\ playlists = 0

\* C6: findSpotifyTrackUri is invoked at most once per track key, and the
\* searches issued while matching are those of the keys resolved (a skipped
\* candidate costs no search).
C6_ResolveOncePerKey ==
  /\ \A i, j \in 1..Len(resolved) : i # j => resolved[i] # resolved[j]
  /\ Cardinality(attemptedTrackKeys) = Len(resolved)
  /\ pc \in {"match", "search", "loop", "expandgen", "fill"} =>
       catalogCalls <= 2 * Len(resolved)

\* the seeds Yo, Dreams and a second spelling of Dreams have been matched:
\* the second spelling was skipped
C6_Witness ==
  /\ pc = "loop" /\ attempt = 0 /\ genCalls = 0
  /\ resolved = <<makeTrackKey(C_Yo.title, C_Yo.artist),
                  makeTrackKey(C_Dreams.title, C_Dreams.artist)>>
  /\ makeTrackKey(C_DreamsAlt.title, C_DreamsAlt.artist) \in attemptedTrackKeys

\* C8: a duplicate fill over a base of k >= 1 matched entries with
\* desiredCount d > k leaves the first k entries as they are and appends d - k
\* entries; the i-th appended (from 0) has the uri and the requested
\* candidate of base entry i mod k and is marked duplicated; the
\* duplicateFillCount returned is d - k, the number of entries marked duplicated.
C8_DuplicateFillRoundRobin ==
  [][(pc = "fill" /\ Len(matched) >= 1 /\ Len(matched) < desiredCount) =>
       LET k == Len(matched)
           d == desiredCount
       IN /\ Len(matched') = d
          /\ SubSeq(matched', 1, k) = matched
          /\ \A i \in 0..(d - k - 1) :
               /\ matched'[k + 1 + i].uri = matched[(i % k) + 1].uri
               /\ matched'[k + 1 + i].requested = matched[(i % k) + 1].requested
               /\ matched'[k + 1 + i].duplicated = TRUE
          /\ built' # Null
          /\ built'.matched = matched'
          /\ built'.duplicateFillCount = d - k
          /\ Cardinality({j \in 1..Len(built'.matched) : built'.matched[j].duplicated})
               = d - k]_vars

\* a returned list whose clones went round a base of two or more entries more than once
C8_Witness ==
  /\ built # Null
  /\ Len(built.matched) - built.duplicateFillCount >= 2
  /\ built.duplicateFillCount > Len(built.matched) - built.duplicateFillCount

\* C9: a build run makes at most 8 expansion rounds; a round starts only
\* while matched.length < desired, and asks the generator for
\* min(50, max(3 * (desired - matched.length), 8)) candidates.
C9_ExpansionBudget ==
  /\ attempt <= 8
  /\ genCalls <= attempt + 1
  /\ pc = "expandgen" =>
       /\ attempt >= 1
       /\ Len(matched) < desiredCount
       /\ LET needed == desiredCount - Len(matched)
              floor == IF 3 * needed > 8 THEN 3 * needed ELSE 8
          IN genRequest.trackCount = (IF floor < 50 THEN floor ELSE 50)

\* the eighth round, asking for the capped 50 candidates
C9_Witness == pc = "expandgen" /\ attempt = 8 /\ genRequest.trackCount = 50

\* C10: the fallback list is matched only when the pool is still short after
\* 8 expansion attempts; a run whose pool is full when the loop ends goes on
\* to return without a fallback search.
C10_FallbackOnlyWhenShort ==
  [][/\ (phase # "fallback" /\ phase' = "fallback") =>
          (attempt = 8 /\ Len(matched) < desiredCount)
     /\ (pc = "loop" /\ Len(matched) >= desiredCount) =>
          (pc' = "fill" /\ phase' # "fallback" /\ catalogCalls' = catalogCalls)]_vars

\* a search for a fallback track is in flight
C10_Witness == phase = "fallback" /\ pc = "search" /\ attempt = 8

(***************************************************************************)
(* Properties of the token refresh                                         *)
(***************************************************************************)
RefreshesInFlight == {p \in Callers : callPc[p] = "refreshing"}

\* C7: at most one token refresh is in flight at any time; a call that needs
\* a refresh while one is in progress waits for it and sends none of its own.
C7_SingleFlightRefresh == Cardinality(RefreshesInFlight) <= 1

(***************************************************************************)
(* Properties of the engine's phases                                       *)
(***************************************************************************)
HasClone(ms) == \E i \in 1..Len(ms) : ms[i].duplicated

FallbackKeys ==
  {makeTrackKey(EMERGENCY_FALLBACK_TRACKS[i].title, EMERGENCY_FALLBACK_TRACKS[i].artist) :
     i \in 1..Len(EMERGENCY_FALLBACK_TRACKS)}

\* all 8 expansion attempts were made and the fallback pass attempted every fallback key
AvenuesExhausted(att, ph, keys) ==
  att = 8 /\ ph = "fallback" /\ FallbackKeys \subseteq keys

\* C11: an entry marked duplicated is in the matched list only if the run was
\* still short after the fallback pass with one match or more; the first clone
\* is appended only after all 8 expansion attempts were made and every
\* fallback track key was attempted, and duplicateFillCount > 0 only then.
C11_ClonesOnlyAfterFallback ==
  [][/\ HasClone(matched') =>
          /\ AvenuesExhausted(attempt', phase', attemptedTrackKeys')
          /\ ~HasClone(matched) =>
                /\ pc = "fill"
                /\ Len(matched) >= 1
                /\ Len(matched) < desiredCount
                /\ AvenuesExhausted(attempt, phase, attemptedTrackKeys)
     /\ (built' # Null /\ built'.duplicateFillCount > 0) =>
          /\ HasClone(built'.matched)
          /\ AvenuesExhausted(attempt', phase', attemptedTrackKeys')]_vars

\* a pool returned with clones after the eighth round and the fallback pass
C11_Witness ==
  /\ pc = "create"
  /\ built.duplicateFillCount > 0
  /\ HasClone(built.matched)
  /\ attempt = 8
  /\ Len(resolved) > Len(EMERGENCY_FALLBACK_TRACKS)

\* C12: when the seed pass ends with desiredCount or more matched entries, the
\* engine makes no expansion round (no generation call), matches no fallback
\* track and returns duplicateFillCount = 0.
C12_FullSeedsNoExpansion ==
  [][/\ (pc = "loop" /\ attempt = 0 /\ Len(matched) >= desiredCount) =>
          /\ pc' = "fill"
          /\ attempt' = 0
          /\ genCalls' = genCalls
          /\ catalogCalls' = catalogCalls
          /\ phase' = "seed"
     /\ (pc = "fill" /\ attempt = 0) =>
          /\ Len(matched) >= desiredCount
          /\ pc' = "create"
          /\ attempt' = 0
          /\ genCalls' = genCalls
          /\ phase' = "seed"
          /\ built'.duplicateFillCount = 0
          /\ ~HasClone(built'.matched)
          /\ Len(built'.matched) = desiredCount]_vars

\* approved seeds filled the pool: returned with no round made and no generation call
C12_Witness ==
  /\ built # Null
  /\ attempt = 0
  /\ genCalls = 0
  /\ phase = "seed"
  /\ Len(resolved) >= desiredCount
  /\ built.duplicateFillCount = 0

\* C13: invoked with desiredCount = 0, buildMatchedTrackPool returns no
\* result: the run ends in a failure.
C13_ZeroDesiredFails ==
  (desiredCount = 0 /\ pc \in {"returned", "done"}) =>
     (pc = "done" /\ built = Null /\ response # NoResponse /\ response.status >= 400)

(***************************************************************************)
(* Properties of the generator, the matcher and the normalizer             *)
(***************************************************************************)
LacksField(t) == t.title = <<>> \/ t.artist = <<>>

\* C14: generateTracklist fails whenever no entry is left after the entries
\* that lack a title or an artist are dropped; it never returns an empty
\* list, and every candidate it returns has a title and an artist that are
\* not empty after trimming.
C14_NeverEmptyGeneration ==
  (call # Null /\ call.fn = "generateTracklist") =>
     /\ (SelectSeq(call.content.tracks, LAMBDA t : ~LacksField(t)) = <<>>) => ~call.result.ok
     /\ call.result.ok =>
          /\ Len(call.result.tracks) > 0
          /\ \A i \in 1..Len(call.result.tracks) : ~LacksField(call.result.tracks[i])

ScoreOfItem(item, requestedArtist) == getArtistConfidence(item.artists, requestedArtist)

\* C16: pickBestTrackCandidate returns null or an item of the results whose
\* score is 0.8 or more and is the highest of the results; never an item that
\* scores below 0.8.
C16_NeverBelowThreshold ==
  (call # Null /\ call.fn = "pickBestTrackCandidate" /\ call.result # Null) =>
     /\ \E i \in 1..Len(call.items) : call.items[i] = call.result
     /\ 10 * ScoreOfItem(call.result, call.requestedArtist).n
          >= 8 * ScoreOfItem(call.result, call.requestedArtist).d
     /\ \A i \in 1..Len(call.items) :
          ~ScoreLess(ScoreOfItem(call.result, call.requestedArtist),
                     ScoreOfItem(call.items[i], call.requestedArtist))

\* an item was returned from results that also hold an item scoring below 0.8, placed first
C16_Witness ==
  /\ call # Null
  /\ call.fn = "pickBestTrackCandidate"
  /\ call.result # Null
  /\ call.items[1] # call.result
  /\ ScoreLess(ScoreOfItem(call.items[1], call.requestedArtist), ScoreThreshold)

\* the positions of the results that hold the highest score
TopPositions(items, requestedArtist) ==
  {i \in 1..Len(items) :
     \A j \in 1..Len(items) :
        ~ScoreLess(ScoreOfItem(items[i], requestedArtist), ScoreOfItem(items[j], requestedArtist))}

FirstOf(S) == CHOOSE i \in S : \A j \in S : i <= j

\* C17: when several results share the highest score, pickBestTrackCandidate
\* returns the one that comes first in the order of the search results.
C17_TieFirstInOrder ==
  (call # Null /\ call.fn = "pickBestTrackCandidate" /\ call.result # Null) =>
     call.result = call.items[FirstOf(TopPositions(call.items, call.requestedArtist))]

\* two different items share the highest score and the first of them is not the first result
C17_Witness ==
  /\ call # Null
  /\ call.fn = "pickBestTrackCandidate"
  /\ call.result # Null
  /\ LET top == TopPositions(call.items, call.requestedArtist)
     IN /\ \E i \in top, j \in top : call.items[i] # call.items[j]
        /\ FirstOf(top) > 1

\* a text with its punctuation (all but letters, digits and whitespace) taken out
StripPunctuation(s) ==
  SelectSeq(toLowerCase(s), LAMBDA ch : IsLowerAlnum(ch) \/ ch \in WhitespaceChars)

DiffersOnlyInCaseOrPunctuation(a, b) == StripPunctuation(a) = StripPunctuation(b)

\* the score the claim gives one artist name against the requested one
\* (a name that normalizes to empty gives nothing)
ClaimedScore(name, requestedArtist) ==
  LET candidate == normalizeText(name)
      requested == normalizeText(requestedArtist)
      requestedTokens == SplitTokens(requested)
  IN IF candidate = <<>> THEN ScoreZero
     ELSE IF candidate = requested THEN ScoreOne
     ELSE IF Includes(candidate, requested) \/ Includes(requested, candidate)
       THEN ScoreSubstring
     ELSE [n |-> Cardinality({i \in 1..Len(requestedTokens) :
                                requestedTokens[i] \in SeqToSet(SplitTokens(candidate))}),
           d |-> Len(requestedTokens)]

SameScore(a, b) == a.n * b.d = b.n * a.d

\* C18: getArtistConfidence is in [0,1] and is the maximum over the item's
\* artists of 1 (equal normalized names), 0.92 (one contains the other) or the
\* share of requested tokens found among the artist's tokens; it is 0 when
\* the requested artist normalizes to empty, and 1 whenever an artist name
\* differs from the requested one only in case or punctuation.
C18_ScoreFormula ==
  (call # Null /\ call.fn = "getArtistConfidence") =>
     LET r == call.result
         names == [i \in 1..Len(call.itemArtists) |-> call.itemArtists[i].name]
     IN /\ r.d > 0 /\ 0 <= r.n /\ r.n <= r.d
        /\ normalizeText(call.requestedArtist) = <<>> => SameScore(r, ScoreZero)
        /\ normalizeText(call.requestedArtist) # <<>> =>
             /\ \A i \in 1..Len(names) :
                  ~ScoreLess(r, ClaimedScore(names[i], call.requestedArtist))
             /\ \/ Len(names) = 0 /\ SameScore(r, ScoreZero)
                \/ \E i \in 1..Len(names) :
                     SameScore(r, ClaimedScore(names[i], call.requestedArtist))
             /\ (\E i \in 1..Len(names) :
                    DiffersOnlyInCaseOrPunctuation(names[i], call.requestedArtist))
                  => SameScore(r, ScoreOne)

NormalChars == LowerAlnumChars \cup {" "}

\* only lowercase letters, digits and single interior spaces
IsNormalForm(s) ==
  /\ \A i \in 1..Len(s) : s[i] \in NormalChars
  /\ s # <<>> => (s[1] # " " /\ s[Len(s)] # " ")
  /\ \A i \in 1..(Len(s) - 1) : ~(s[i] = " " /\ s[i + 1] = " ")

\* C19: two (title, artist) pairs have equal track keys exactly if their
\* normalized titles are equal and their normalized artists are equal;
\* normalizeText is idempotent and its output holds only lowercase letters,
\* digits and single interior spaces, so '|' never occurs in a normalized part.
C19_KeyEquivalence ==
  /\ (call # Null /\ call.fn = "normalizeText") =>
        /\ normalizeText(call.result) = call.result
        /\ IsNormalForm(call.result)
        /\ \A i \in 1..Len(call.result) : call.result[i] # "|"
  /\ (call # Null /\ call.fn = "makeTrackKey") =>
        /\ (call.keyA = call.keyB) <=>
             /\ normalizeText(call.a.title) = normalizeText(call.b.title)
             /\ normalizeText(call.a.artist) = normalizeText(call.b.artist)
        /\ Cardinality({i \in 1..Len(call.keyA) : call.keyA[i] = "|"}) = 1

\* two pairs written differently, with a '|' in a title, that have the same key
C19_Witness ==
  /\ call # Null
  /\ call.fn = "makeTrackKey"
  /\ call.keyA = call.keyB
  /\ call.a # call.b
  /\ \E i \in 1..Len(call.a.title) : call.a.title[i] = "|"

(***************************************************************************)
(* Properties of the materializer's appends and of the query order         *)
(***************************************************************************)
RECURSIVE Concat(_)
Concat(batches) ==
  IF batches = <<>> THEN <<>> ELSE Head(batches) \o Concat(Tail(batches))

\* C15: the uris are appended in batches of at most 100, one after the other,
\* and the batches appended, put end to end, are the uris of the returned
\* matched list in its order, clones included; the playlist is created before
\* any append.
C15_AppendsInOrder ==
  /\ \A b \in 1..Len(appended) : Len(appended[b]) >= 1 /\ Len(appended[b]) <= 100
  /\ (pc = "append" \/ appended # <<>>) => (playlists = 1 /\ built # Null)
  /\ built # Null =>
       LET all == Concat(appended)
           final == [i \in 1..Len(built.matched) |-> built.matched[i].uri]
       IN /\ Len(all) <= Len(final)
          /\ all = SubSeq(final, 1, Len(all))
          /\ pc = "append" => Len(all) = appendIdx
          /\ Succeeded => (all = final /\ final = [i \in 1..Len(response.matched) |->
                                                      response.matched[i].uri])

\* a playlist was filled from a matched list that holds clones
C15_Witness ==
  /\ Succeeded
  /\ appended # <<>>
  /\ response.duplicateFillCount > 0
  /\ Len(Concat(appended)) = desiredCount

Last(q) == q[Len(q)]

ResolveOf(cat, c) ==
  LET m1 == MatchOfItems(SearchItems(cat, StructuredQuery(c)), c)
  IN IF m1 # Null THEN m1 ELSE MatchOfItems(SearchItems(cat, LooseQuery(c)), c)

\* C21: for every candidate whose key is attempted: if findSpotifyTrackUri
\* returns null the candidate is appended to unmatched; if it returns a uri
\* not yet in usedUris an entry for it is appended to matched and the uri is
\* added to usedUris; if it returns a uri already in usedUris, matched,
\* unmatched and usedUris stay as they are. attemptedTrackKeys grows by the
\* candidate's key when its resolution starts, and only then.
C21_MatchBookkeeping ==
  [][/\ (pc = "match" /\ pc' = "search") =>
          /\ attemptedTrackKeys' =
               attemptedTrackKeys \cup {makeTrackKey(cur'.title, cur'.artist)}
          /\ makeTrackKey(cur'.title, cur'.artist) \notin attemptedTrackKeys
          /\ UNCHANGED <<matched, unmatched, usedUris>>
     /\ ~(pc = "match" /\ pc' = "search") => attemptedTrackKeys' = attemptedTrackKeys
     /\ (pc = "search" /\ pc' = "match") =>
          LET r == ResolveOf(Catalogs[catalog], cur)
          IN IF r = Null
               THEN /\ unmatched' = Append(unmatched, cur)
                    /\ UNCHANGED <<matched, usedUris>>
               ELSE IF r.uri \notin usedUris
                 THEN /\ Len(matched') = Len(matched) + 1
                      /\ SubSeq(matched', 1, Len(matched)) = matched
                      /\ matched'[Len(matched')].requested = cur
                      /\ matched'[Len(matched')].uri = r.uri
                      /\ usedUris' = usedUris \cup {r.uri}
                      /\ unmatched' = unmatched
                 ELSE UNCHANGED <<matched, unmatched, usedUris>>
     /\ (pc = "search" /\ pc' = "search") => UNCHANGED <<matched, unmatched, usedUris>>]_vars

\* a candidate resolved to a uri that was in use: it is in neither list
C21_Witness ==
  /\ pc = "match"
  /\ cur # NoCandidate
  /\ makeTrackKey(cur.title, cur.artist) \in attemptedTrackKeys
  /\ ResolveOf(Catalogs[catalog], cur) # Null
  /\ ResolveOf(Catalogs[catalog], cur).uri \in usedUris
  /\ \A i \in 1..Len(matched) : matched[i].requested # cur
  /\ \A i \in 1..Len(unmatched) : unmatched[i] # cur

\* the sequence the exclusions are taken from
ExclusionSource == [i \in 1..Len(matched) |-> matched[i].requested] \o unmatched

RenderedAs(c) == c.title \o <<" ", "-", " ">> \o c.artist

\* C22: in an expansion round the engine passes the first 80 entries of (the
\* requested candidates of matched, in order, then the unmatched candidates,
\* in order) and the generator renders the first 40 of those; when matched and
\* unmatched hold 40 entries or fewer, every unmatched candidate is rendered.
C22_ExclusionsArePrefix ==
  pc = "expandgen" =>
     LET passed == genRequest.excludedTracks
         rendered == genRequest.exclusions
         n == Len(ExclusionSource)
     IN /\ Len(passed) = (IF n < 80 THEN n ELSE 80)
        /\ \A i \in 1..Len(passed) : passed[i] = ExclusionSource[i]
        /\ Len(rendered) = (IF n < 40 THEN n ELSE 40)
        /\ \A i \in 1..Len(rendered) : rendered[i] = RenderedAs(ExclusionSource[i])
        /\ n <= 40 =>
             \A j \in 1..Len(unmatched) :
                rendered[Len(matched) + j] = RenderedAs(unmatched[j])

\* a round that starts with more than 80 entries to exclude, matches and misses
C22_Witness ==
  /\ pc = "expandgen"
  /\ Len(matched) >= 1
  /\ Len(unmatched) >= 1
  /\ Len(matched) + Len(unmatched) > 80
  /\ Len(genRequest.excludedTracks) = 80
  /\ Len(genRequest.exclusions) = 40

(***************************************************************************)
(* Properties of the requested count                                       *)
(***************************************************************************)
Clamped(n) == IF n < 5 THEN 5 ELSE IF n > 50 THEN 50 ELSE n

\* C23 as claimed: the count handed to the engine is in [5,50]; clampTrackCount
\* maps an integer n to min(max(n,5),50) and maps 0, a missing value and every
\* value that is not numeric to 20.
C23_ClampAsClaimed ==
  (call # Null /\ call.fn = "clampTrackCount") =>
     /\ call.result \in 5..50
     /\ (call.value.kind \in {"number", "numeral"} /\ call.value.val # 0) =>
          call.result = Clamped(call.value.val)
     /\ (call.value.kind \notin {"number", "numeral"} \/ call.value.val = 0) =>
          call.result = 20

\* C23, amended: the count handed to the engine is in [5,50]; clampTrackCount
\* maps an integer n other than 0 (a number or its numeral) to min(max(n,5),50),
\* maps 0, a missing value, null, false, empty text and text that is no numeral
\* to 20, and maps true to 5.
C23_Clamp ==
  (call # Null /\ call.fn = "clampTrackCount") =>
     /\ call.result \in 5..50
     /\ (call.value.kind \in {"number", "numeral"} /\ call.value.val # 0) =>
          call.result = Clamped(call.value.val)
     /\ (call.value.kind \in {"undefined", "null", "false", "empty", "text"}
           \/ (call.value.kind \in {"number", "numeral"} /\ call.value.val = 0)) =>
          call.result = 20
     /\ call.value.kind = "true" => call.result = 5

\* the count of a request whose trackCount is true
C23_Witness ==
  /\ call # Null
  /\ call.fn = "clampTrackCount"
  /\ call.value.kind = "true"
  /\ call.result = 5

(***************************************************************************)
(* Properties of a preview request                                         *)
(***************************************************************************)
\* C24: a preview request makes exactly one generation call and no
\* expansion, fallback or duplicate-fill step: its matched list holds only
\* candidates of that generation, with pairwise distinct uris and no entry
\* marked duplicated, and may be shorter than the requested count.
C24_PreviewSinglePass ==
  /\ genCalls <= 1
  /\ attempt = 0
  /\ pc \in {"previewgen", "previewloop", "previewsearch"} =>
       (genCalls = 1 /\ genRequest.trackCount = desiredCount
          /\ genRequest.excludedTracks = <<>>)
  /\ \A i \in 1..Len(matched) :
       /\ \E g \in 1..Len(generatedTracks) : generatedTracks[g] = matched[i].requested
       /\ ~matched[i].duplicated
       /\ \A j \in 1..Len(matched) : i # j => matched[i].uri # matched[j].uri
  /\ \A i \in 1..Len(unmatched) :
       \E g \in 1..Len(generatedTracks) : generatedTracks[g] = unmatched[i]
  /\ Len(resolved) <= Len(generatedTracks)
  /\ (response # NoResponse /\ response.status = 200) =>
       /\ genCalls = 1
       /\ response.matched = matched
       /\ Len(resolved) = Len(generatedTracks)
       /\ Len(response.previewRows) = Len(generatedTracks)

\* a preview answered with fewer matches than the requested count, one candidate
\* of which resolved to a uri that another had taken
C24_Witness ==
  /\ response # NoResponse
  /\ response.status = 200
  /\ Len(response.matched) >= 1
  /\ Len(response.matched) < response.previewTrackCount
  /\ Len(response.previewRows) > Len(response.matched) + Len(response.unmatched)

IsPrefix(a, b) == Len(a) <= Len(b) /\ SubSeq(b, 1, Len(a)) = a

\* usedUris is the set of the uris of matched, one entry each
UrisInStep(ms, used) ==
  /\ used = {ms[i].uri : i \in 1..Len(ms)}
  /\ Cardinality(used) = Len(ms)

ClonesLast(ms) ==
  \A i \in 1..Len(ms), j \in 1..Len(ms) : (i < j /\ ms[i].duplicated) => ms[j].duplicated

\* C25: until the duplicate fill, usedUris is exactly the set of the uris of
\* the entries of matched and has matched.length elements; matched and
\* unmatched only grow at their ends; in the final list the entries marked
\* duplicated come after all the others.
C25_PoolInvariants ==
  [][/\ ~HasClone(matched) => UrisInStep(matched, usedUris)
     /\ ~HasClone(matched') => UrisInStep(matched', usedUris')
     /\ IsPrefix(matched, matched')
     /\ IsPrefix(unmatched, unmatched')
     /\ ClonesLast(matched')
     /\ built' # Null =>
          /\ ClonesLast(built'.matched)
          /\ IsPrefix(built'.matched, matched')
          /\ built'.unmatched = unmatched']_vars

\* a list returned with clones behind two or more matches, after misses
C25_Witness ==
  /\ built # Null
  /\ HasClone(built.matched)
  /\ Cardinality(usedUris) >= 2
  /\ Len(built.unmatched) >= 1
  /\ ~built.matched[Cardinality(usedUris)].duplicated
  /\ built.matched[Cardinality(usedUris) + 1].duplicated

(***************************************************************************)
(* Termination of a build run                                              *)
(***************************************************************************)
BuildRunning == pc \in {"match", "search", "loop", "expandgen", "fill"}

BuildEnded == pc \in {"returned", "done"}

\* C26: when every generation and catalog call returns, every build run ends,
\* returning or failing: it makes 8 expansion rounds at most, one fallback
\* pass over the 10 built-in tracks and a duplicate fill of desiredCount
\* clones at most.
C26_BuildRunEnds ==
  /\ BuildRunning ~> BuildEnded
  /\ [](attempt <= 8)
  /\ [](phase = "fallback" => Len(queue) <= 10)
  /\ [](built # Null => built.duplicateFillCount <= desiredCount)
  /\ [][phase = "fallback" => phase' = "fallback"]_vars
  /\ [][(phase # "fallback" /\ phase' = "fallback") => Len(queue') = 10]_vars

\* a run that ended after eight rounds, the fallback pass and a duplicate fill
C26_Witness ==
  /\ pc = "returned"
  /\ attempt = 8
  /\ phase = "fallback"
  /\ built # Null
  /\ built.duplicateFillCount > 0

(***************************************************************************)
(* Slack approvals                                                         *)
(***************************************************************************)
\* the interactions that were told the playlist is being created for this id
CreatingFor(id) ==
  {p \in Interactions : interactions[p].id = id /\ interactions[p].reply = "creating"}

\* interaction p leaves its first step
Answers(p) == interactions[p].pc = "idle" /\ interactions'[p].pc # "idle"

\* C27: every approval id triggers playlist creation once at most, however
\* the approve interactions that carry it interleave: the lookup and the
\* delete are one step, an interaction for an id that is not pending gets
\* the expired reply and creates nothing, and a deleted entry stays
\* deleted, also when the creation fails.
C27_ApprovalCreatesOnce ==
  /\ [](\A id \in ApprovalIds :
          /\ creations[id] <= 1
          /\ Cardinality(CreatingFor(id)) = creations[id]
          /\ (creations[id] = 1 => id \notin pendingSlackApprovals))
  /\ [](\A p \in Interactions :
          interactions[p].outcome = "failed" =>
            interactions[p].id \notin pendingSlackApprovals)
  /\ [][\A id \in approvalsIssued :
          id \notin pendingSlackApprovals => id \notin pendingSlackApprovals']_vars
  /\ [][\A p \in Interactions :
          Answers(p) =>
            LET id == interactions'[p].id
            IN IF id \in pendingSlackApprovals
                 THEN /\ interactions'[p].reply = "creating"
                      /\ id \notin pendingSlackApprovals'
                      /\ creations' = [creations EXCEPT ![id] = 1]
                 ELSE /\ interactions'[p].reply = "expired"
                      /\ interactions'[p].pc = "done"
                      /\ creations' = creations
                      /\ pendingSlackApprovals' = pendingSlackApprovals]_vars

\* two interactions carried the same id: the creation of one failed, the other got
\* the expired reply
C27_Witness ==
  \E p, q \in Interactions :
    /\ p # q
    /\ interactions[p].id = interactions[q].id
    /\ interactions[p].outcome = "failed"
    /\ interactions[q].reply = "expired"
    /\ interactions[p].id \in approvalsIssued
    /\ creations[interactions[p].id] = 1

(***************************************************************************)
(* The seed generation call and the number of generation calls             *)
(***************************************************************************)
\* the entries of an approved-track list with a requested title and a requested artist
CompletePositions(list) ==
  {i \in 1..Len(list) : list[i].requested.title # <<>> /\ list[i].requested.artist # <<>>}

\* the k-th smallest member of a set of positions
NthOf(P, k) == CHOOSE i \in P : Cardinality({j \in P : j <= i}) = k

CompleteRequested(list) ==
  [k \in 1..Cardinality(CompletePositions(list)) |->
     list[NthOf(CompletePositions(list), k)].requested]

\* createPlaylistFromInputs runs up to its first await
Receives == pc = "idle" /\ pc' \in {"seedgen", "match"}

\* C28 as stated: the seed generation call is made if and only if no approved
\* entry has both a requested title and a requested artist; otherwise the
\* seeds are the requested candidates of the approved tracks in order; a
\* request makes 9 generation calls at most, and 8 at most when approved
\* tracks are supplied.
C28_AsStated ==
  /\ [][Receives =>
          LET list == ApprovedLists[approved']
          IN /\ (pc' = "seedgen" /\ genCalls' = genCalls + 1)
                  <=> CompletePositions(list) = {}
             /\ CompletePositions(list) # {} => queue' = RequestedOf(list)]_vars
  /\ [](genCalls <= 9)
  /\ []((pc # "idle" /\ ApprovedLists[approved] # <<>>) => genCalls <= 8)

\* C28: the seed generation call is made if and only if no approved entry
\* has both a requested title and a requested artist; otherwise the seeds
\* are the requested candidates of the entries that have both, in order,
\* and no generation call is made for them; a request makes 9 generation
\* calls at most (the seed call and one for each of 8 rounds at most), and 8
\* at most when some approved entry has both.
C28_SeedCallIffNoCompleteEntry ==
  /\ [][Receives =>
          LET list == ApprovedLists[approved']
          IN /\ (pc' = "seedgen" /\ genCalls' = genCalls + 1)
                  <=> CompletePositions(list) = {}
             /\ (pc' = "match" /\ genCalls' = genCalls)
                  <=> CompletePositions(list) # {}
             /\ CompletePositions(list) # {} => queue' = CompleteRequested(list)]_vars
  /\ [](genCalls <= 9 /\ attempt <= 8)
  /\ []((pc # "idle" /\ (response = NoResponse \/ response.status \notin {400, 401})) =>
          genCalls = attempt + (IF CompletePositions(ApprovedLists[approved]) = {}
                                  THEN 1 ELSE 0))
  /\ []((pc # "idle" /\ CompletePositions(ApprovedLists[approved]) # {}) => genCalls <= 8)

\* a request whose approved tracks held an entry with both and an entry without a
\* title has made its eighth generation call, and none for the seeds
C28_Witness ==
  /\ pc = "done"
  /\ CompletePositions(ApprovedLists[approved]) # {}
  /\ CompletePositions(ApprovedLists[approved]) # 1..Len(ApprovedLists[approved])
  /\ genCalls = 8
  /\ attempt = 8

====
